---- MODULE Spec2Model ----
(***************************************************************************)
(* Voice command parsing and validation pipeline of sauti-ledger:          *)
(*   - backend commandParserService (generateWithRetry, parseVoiceCommand, *)
(*     isValidEthereumAddress),                                            *)
(*   - frontend VoiceTransfer component with the mneeService hooks.        *)
(*                                                                         *)
(* JavaScript strings are sequences of one-character strings.  JavaScript  *)
(* numbers are kept in the decimal form of ECMAScript Number::toString:    *)
(* the significant digits s (k of them) and the exponent n with            *)
(* value = s * 10^(n-k).  BigInts are digit sequences without leading      *)
(* zeros, so that base-unit amounts of 18 decimals stay exact.             *)
(***************************************************************************)
EXTENDS Integers, Sequences, FiniteSets, TLC

\* ------------------------------------------------------------------------
\* Characters, strings
\* ------------------------------------------------------------------------

DigitSeq == <<"0", "1", "2", "3", "4", "5", "6", "7", "8", "9">>

Digits == {DigitSeq[i] : i \in 1..10}

DigitVal(c) == (CHOOSE i \in 1..10 : DigitSeq[i] = c) - 1

HexChars == Digits \cup {"a", "b", "c", "d", "e", "f", "A", "B", "C", "D", "E", "F"}

WhiteSpace == {" ", "\n", "\t"}

Rep(c, k) == [i \in 1..k |-> c]

AllIn(str, S) == \A i \in 1..Len(str) : str[i] \in S

RECURSIVE TrimStart(_)
TrimStart(str) ==
  IF Len(str) > 0 /\ Head(str) \in WhiteSpace THEN TrimStart(Tail(str)) ELSE str

RECURSIVE TrimEnd(_)
TrimEnd(str) ==
  IF Len(str) > 0 /\ str[Len(str)] \in WhiteSpace
    THEN TrimEnd(SubSeq(str, 1, Len(str) - 1))
    ELSE str

\* String.prototype.trim
Trim(str) == TrimEnd(TrimStart(str))

\* ------------------------------------------------------------------------
\* JavaScript values as they come out of JSON.parse or a caller
\* ------------------------------------------------------------------------

Undefined == [t |-> "undefined"]
Null == [t |-> "null"]
Obj == [t |-> "object"]
Num(neg, s, n) == [t |-> "number", v |-> [neg |-> neg, s |-> s, n |-> n]]

IsString(x) == x.t = "string"
IsNumber(x) == x.t = "number"

NumIsZero(x) == x.v.s = <<"0">>

\* ToBoolean(x): the falsy values are undefined, null, "", 0 (NaN cannot come
\* out of JSON.parse)
Truthy(x) ==
  CASE x.t = "undefined" -> FALSE
    [] x.t = "null" -> FALSE
    [] x.t = "string" -> Len(x.v) > 0
    [] x.t = "number" -> ~NumIsZero(x)
    [] x.t = "boolean" -> x.v
    [] OTHER -> TRUE

\* x <= 0 for a number x
NumLeqZero(x) == NumIsZero(x) \/ x.v.neg

RECURSIVE DigitsToInt(_)
DigitsToInt(ds) ==
  IF Len(ds) = 0 THEN 0
  ELSE 10 * DigitsToInt(SubSeq(ds, 1, Len(ds) - 1)) + DigitVal(ds[Len(ds)])

RECURSIVE IntToDigits(_)
IntToDigits(i) ==
  IF i < 10 THEN <<DigitSeq[i + 1]>>
  ELSE IntToDigits(i \div 10) \o <<DigitSeq[(i % 10) + 1]>>

\* The integer part of a non-negative number with at most 9 integer digits
FloorInt(x) ==
  LET k == Len(x.v.s)
      n == x.v.n
  IN IF n <= 0 THEN 0
     ELSE IF n <= k THEN DigitsToInt(SubSeq(x.v.s, 1, n))
     ELSE DigitsToInt(x.v.s \o Rep("0", n - k))

\* x < c for a number x and an integer constant c with 1 <= c < 10^9
NumLessThan(x, c) ==
  \/ x.v.neg
  \/ NumIsZero(x)
  \/ x.v.n <= 9 /\ FloorInt(x) < c

\* Number.prototype.toString (ECMAScript Number::toString, radix 10)
NumberToString(x) ==
  LET s == x.v.s
      k == Len(s)
      n == x.v.n
      e == n - 1
      pos ==
        IF NumIsZero(x) THEN <<"0">>
        ELSE IF k <= n /\ n <= 21 THEN s \o Rep("0", n - k)
        ELSE IF 0 < n /\ n <= 21 THEN SubSeq(s, 1, n) \o <<".">> \o SubSeq(s, n + 1, k)
        ELSE IF -6 < n /\ n <= 0 THEN <<"0", ".">> \o Rep("0", -n) \o s
        ELSE LET ex == <<"e">> \o (IF e < 0 THEN <<"-">> ELSE <<"+">>)
                         \o IntToDigits(IF e < 0 THEN -e ELSE e)
             IN IF k = 1 THEN s \o ex
                ELSE <<s[1], ".">> \o SubSeq(s, 2, k) \o ex
  IN IF x.v.neg /\ ~NumIsZero(x) THEN <<"-">> \o pos ELSE pos

\* ------------------------------------------------------------------------
\* BigInt: [neg, d] with d a digit sequence without leading zeros
\* ------------------------------------------------------------------------

RECURSIVE StripZeros(_)
StripZeros(ds) ==
  IF Len(ds) > 1 /\ Head(ds) = "0" THEN StripZeros(Tail(ds)) ELSE ds

SyntaxError == [t |-> "throw", name |-> "SyntaxError"]

Big(ds) == [t |-> "bigint", neg |-> FALSE, d |-> StripZeros(ds)]

\* BigInt(string): StringToBigInt of a decimal literal; anything else (an
\* exponent, a sign in the middle, a decimal point) is a SyntaxError
BigIntOf(str) ==
  LET body == IF Len(str) > 0 /\ str[1] = "-" THEN Tail(str) ELSE str
      neg == Len(str) > 0 /\ str[1] = "-"
  IN IF Len(str) = 0 THEN Big(<<"0">>)
     ELSE IF Len(body) > 0 /\ AllIn(body, Digits)
       THEN [t |-> "bigint", neg |-> neg /\ StripZeros(body) # <<"0">>, d |-> StripZeros(body)]
       ELSE SyntaxError

RECURSIVE DigitsGreater(_, _)
DigitsGreater(a, b) ==
  IF Len(a) = 0 THEN FALSE
  ELSE IF a[1] # b[1] THEN DigitVal(a[1]) > DigitVal(b[1])
  ELSE DigitsGreater(Tail(a), Tail(b))

\* a > b for two BigInts
BigGreater(a, b) ==
  IF a.neg # b.neg THEN b.neg
  ELSE LET mag == IF Len(a.d) # Len(b.d) THEN Len(a.d) > Len(b.d)
                  ELSE DigitsGreater(a.d, b.d)
       IN IF a.neg THEN a.d # b.d /\ ~mag ELSE mag

\* ------------------------------------------------------------------------
\* Backend: commandParserService
\* ------------------------------------------------------------------------

MaxRetries == 3
BackoffUnit == 1000
AmbiguityThreshold == 50
AddressHexLen == 40

Chars(str) == [t |-> "string", v |-> str]

TRANSFER == <<"t", "r", "a", "n", "s", "f", "e", "r">>

Return(v) == [t |-> "return", v |-> v]
Throw(m) == [t |-> "throw", message |-> m]
Pending == [t |-> "pending"]

\* /^0x[a-fA-F0-9]{40}$/.test(address), no flags: the whole input must match
AddressRegexTest(str) ==
  /\ Len(str) = 2 + AddressHexLen
  /\ str[1] = "0"
  /\ str[2] = "x"
  /\ \A i \in 3..Len(str) : str[i] \in HexChars

IsValidEthereumAddress_prefixOnly(address) ==
  /\ Truthy(address)
  /\ IsString(address)
  /\ Len(address.v) >= 2 /\ address.v[1] = "0" /\ address.v[2] = "x"

IsValidEthereumAddress_lowerHex(address) ==
  /\ Truthy(address)
  /\ IsString(address)
  /\ AddressRegexTest(address.v)
  /\ \A i \in 3..Len(address.v) : address.v[i] \notin {"A", "B", "C", "D", "E", "F"}

IsValidEthereumAddress(address) ==
  /\ Truthy(address)
  /\ IsString(address)
  /\ AddressRegexTest(address.v)

\* The default of the reasoning field, held as one piece of text
NO_REASONING == Chars(<<"No reasoning provided">>)

\* parseVoiceCommand, "Extract fields with defaults"
NormAction(parsedData) ==
  IF Truthy(parsedData.action) THEN parsedData.action ELSE Chars(<<>>)

NormAmount(parsedData) ==
  IF IsNumber(parsedData.amount) THEN parsedData.amount ELSE Num(FALSE, <<"0">>, 1)

NormRecipient(parsedData) ==
  IF Truthy(parsedData.recipient) THEN parsedData.recipient ELSE Chars(<<>>)

NormConfidence(parsedData) ==
  IF IsNumber(parsedData.confidence) THEN parsedData.confidence ELSE Num(FALSE, <<"0">>, 1)

NormReasoning(parsedData) ==
  IF Truthy(parsedData.reasoning) THEN parsedData.reasoning ELSE NO_REASONING

\* The three structural checks
ActionFails(action) == ~Truthy(action) \/ ~IsString(action) \/ action.v # TRANSFER

AmountFails(amount) == NumLeqZero(amount)

RecipientFails(recipient) == ~Truthy(recipient) \/ ~IsValidEthereumAddress(recipient)

ACTION_FIELD == "action (must be \"transfer\")"
AMOUNT_FIELD == "amount (must be positive number)"
RECIPIENT_FIELD == "recipient (must be valid Ethereum address)"

MissingFields_firstOnly(action, amount, recipient) ==
  IF ActionFails(action) THEN <<ACTION_FIELD>>
  ELSE IF AmountFails(amount) THEN <<AMOUNT_FIELD>>
  ELSE IF RecipientFails(recipient) THEN <<RECIPIENT_FIELD>>
  ELSE <<>>

MissingFields(action, amount, recipient) ==
  (IF ActionFails(action) THEN <<ACTION_FIELD>> ELSE <<>>)
  \o (IF AmountFails(amount) THEN <<AMOUNT_FIELD>> ELSE <<>>)
  \o (IF RecipientFails(recipient) THEN <<RECIPIENT_FIELD>> ELSE <<>>)

IsAmbiguous_never(confidence) == FALSE

IsAmbiguous(confidence) == NumLessThan(confidence, AmbiguityThreshold)

MissingParametersError(text, missingFields, reasoning) ==
  [error |-> [code |-> "MISSING_PARAMETERS",
              message |-> <<"Unable to parse command. Missing or invalid: ", missingFields>>,
              details |-> reasoning],
   rawText |-> text]

AmbiguousCommandError(text, reasoning) ==
  [error |-> [code |-> "AMBIGUOUS_COMMAND",
              message |-> "Command is unclear. Please provide more specific details.",
              details |-> reasoning,
              clarificationNeeded |-> TRUE],
   rawText |-> text]

ParsedCommandOf(text, action, amount, recipient, confidence) ==
  [action |-> action, amount |-> amount, recipient |-> recipient,
   confidence |-> confidence, rawText |-> text]

\* parseVoiceCommand from "Extract fields with defaults" to the return of the
\* parsed command (the timestamp, a fresh clock reading, is left out)
ValidateParsedData_confidenceFirst(text, parsedData) ==
  LET action == NormAction(parsedData)
      amount == NormAmount(parsedData)
      recipient == NormRecipient(parsedData)
      confidence == NormConfidence(parsedData)
      reasoning == NormReasoning(parsedData)
      missingFields == MissingFields(action, amount, recipient)
  IN IF IsAmbiguous(confidence) THEN AmbiguousCommandError(text, reasoning)
     ELSE IF Len(missingFields) > 0
       THEN MissingParametersError(text, missingFields, reasoning)
     ELSE ParsedCommandOf(text, action, amount, recipient, confidence)

ValidateParsedData(text, parsedData) ==
  LET action == NormAction(parsedData)
      amount == NormAmount(parsedData)
      recipient == NormRecipient(parsedData)
      confidence == NormConfidence(parsedData)
      reasoning == NormReasoning(parsedData)
      missingFields == MissingFields(action, amount, recipient)
  IN IF Len(missingFields) > 0
       THEN MissingParametersError(text, missingFields, reasoning)
     ELSE IF IsAmbiguous(confidence) THEN AmbiguousCommandError(text, reasoning)
     ELSE ParsedCommandOf(text, action, amount, recipient, confidence)

\* ------------------------------------------------------------------------
\* The text of the model's answer: the two regular expressions of
\* parseVoiceCommand and JSON.parse (texts without escapes and exponents)
\* ------------------------------------------------------------------------

MinOf(S) == CHOOSE i \in S : \A j \in S : i <= j
MaxOf(S) == CHOOSE i \in S : \A j \in S : i >= j

\* all start positions of sub in str from position from on
Occurrences(str, sub, from) ==
  { i \in from..(Len(str) - Len(sub) + 1) : SubSeq(str, i, i + Len(sub) - 1) = sub }

\* The grave accent (U+0060), which a string of this notation cannot hold, is
\* written "^"; the texts of the model hold no circumflex of their own
GRAVE == "^"

FENCE == <<GRAVE, GRAVE, GRAVE>>
FENCE_JSON == FENCE \o <<"j", "s", "o", "n">>

NoMatch == [matched |-> FALSE]

\* str.match(/<open>\s*([\s\S]*?)\s*<fence>/): the capture group of the leftmost
\* match.  The closing fence is the first one after the opening, and the
\* group is what lies between without the white space at its two ends.
FenceMatch(str, open) ==
  LET opens == Occurrences(str, open, 1)
      i == MinOf(opens)
      closes == Occurrences(str, FENCE, i + Len(open))
  IN IF opens = {} THEN NoMatch
     ELSE IF closes = {} THEN NoMatch
     ELSE [matched |-> TRUE, group |-> Trim(SubSeq(str, i + Len(open), MinOf(closes) - 1))]

\* str.match(/\{[\s\S]*\}/): from the first "{" to the last "}" (greedy)
ObjectMatch(str) ==
  LET opens == Occurrences(str, <<"{">>, 1)
      closes == Occurrences(str, <<"}">>, 1)
  IN IF opens = {} \/ closes = {} THEN NoMatch
     ELSE IF MaxOf(closes) < MinOf(opens) THEN NoMatch
     ELSE [matched |-> TRUE, group |-> SubSeq(str, MinOf(opens), MaxOf(closes))]

\* the same with a lazy quantifier, /\{[\s\S]*?\}/: to the first "}"
ObjectMatch_lazy(str) ==
  LET opens == Occurrences(str, <<"{">>, 1)
      closes == IF opens = {} THEN {} ELSE Occurrences(str, <<"}">>, MinOf(opens))
  IN IF closes = {} THEN NoMatch
     ELSE [matched |-> TRUE, group |-> SubSeq(str, MinOf(opens), MinOf(closes))]

Bool(b) == [t |-> "boolean", v |-> b]
JsonArray(items) == [t |-> "array", items |-> items]
\* an object out of JSON.parse: its members <<key, value>> in text order
ParsedObject(members) == [t |-> "object", members |-> members]

ParseFail == [ok |-> FALSE]
ParseOk(v, next) == [ok |-> TRUE, v |-> v, next |-> next]

RECURSIVE SkipWs(_, _)
SkipWs(str, i) ==
  IF i <= Len(str) /\ str[i] \in WhiteSpace THEN SkipWs(str, i + 1) ELSE i

RECURSIVE DigitsEnd(_, _)
DigitsEnd(str, i) ==
  IF i <= Len(str) /\ str[i] \in Digits THEN DigitsEnd(str, i + 1) ELSE i

RECURSIVE TrimZerosRight(_)
TrimZerosRight(ds) ==
  IF Len(ds) > 1 /\ ds[Len(ds)] = "0" THEN TrimZerosRight(SubSeq(ds, 1, Len(ds) - 1)) ELSE ds

RECURSIVE LeadingZeros(_)
LeadingZeros(ds) ==
  IF Len(ds) > 0 /\ Head(ds) = "0" THEN 1 + LeadingZeros(Tail(ds)) ELSE 0

\* the Number of the literal [-]int[.frac]
NumOfLiteral(neg, int, frac) ==
  LET all == int \o frac
      lead == LeadingZeros(all)
      tail == SubSeq(all, lead + 1, Len(all))
      s == TrimZerosRight(tail)
  IN IF lead = Len(all) THEN Num(neg, <<"0">>, 1)
     ELSE Num(neg, s, Len(int) - lead)

\* a string literal that starts at the quote str[i]
ParseString(str, i) ==
  LET closes == Occurrences(str, <<"\"">>, i + 1)
      j == MinOf(closes)
      body == SubSeq(str, i + 1, j - 1)
  IN IF closes = {} THEN ParseFail
     ELSE IF \E k \in 1..Len(body) : body[k] \in {"\\", "\n", "\t"} THEN ParseFail
     ELSE ParseOk(Chars(body), j + 1)

\* a number literal that starts at str[i]
ParseNumber(str, i) ==
  LET neg == str[i] = "-"
      a == IF neg THEN i + 1 ELSE i
      b == DigitsEnd(str, a)
      int == SubSeq(str, a, b - 1)
      dot == b <= Len(str) /\ str[b] = "."
      c == IF dot THEN DigitsEnd(str, b + 1) ELSE b
      frac == IF dot THEN SubSeq(str, b + 1, c - 1) ELSE <<>>
  IN IF Len(int) = 0 \/ (Len(int) > 1 /\ int[1] = "0") THEN ParseFail
     ELSE IF dot /\ Len(frac) = 0 THEN ParseFail
     ELSE ParseOk(NumOfLiteral(neg, int, frac), c)

ParseLiteral(str, i) ==
  LET Is(word) == SubSeq(str, i, i + Len(word) - 1) = word
  IN IF i + 3 <= Len(str) /\ Is(<<"n", "u", "l", "l">>) THEN ParseOk(Null, i + 4)
     ELSE IF i + 3 <= Len(str) /\ Is(<<"t", "r", "u", "e">>) THEN ParseOk(Bool(TRUE), i + 4)
     ELSE IF i + 4 <= Len(str) /\ Is(<<"f", "a", "l", "s", "e">>) THEN ParseOk(Bool(FALSE), i + 5)
     ELSE ParseFail

RECURSIVE ParseValue(_, _)
RECURSIVE ParseMembers(_, _, _)
RECURSIVE ParseElements(_, _, _)

\* a value that starts at or after str[i]
ParseValue(str, i) ==
  LET j == SkipWs(str, i)
      k == SkipWs(str, j + 1)
  IN IF j > Len(str) THEN ParseFail
     ELSE IF str[j] = "{"
       THEN IF k <= Len(str) /\ str[k] = "}" THEN ParseOk(ParsedObject(<<>>), k + 1)
            ELSE ParseMembers(str, k, <<>>)
     ELSE IF str[j] = "["
       THEN IF k <= Len(str) /\ str[k] = "]" THEN ParseOk(JsonArray(<<>>), k + 1)
            ELSE ParseElements(str, k, <<>>)
     ELSE IF str[j] = "\"" THEN ParseString(str, j)
     ELSE IF str[j] \in Digits \cup {"-"} THEN ParseNumber(str, j)
     ELSE ParseLiteral(str, j)

\* the members of an object from the key at str[i] on; acc holds the earlier ones
ParseMembers(str, i, acc) ==
  IF i > Len(str) \/ str[i] # "\"" THEN ParseFail
  ELSE LET key == ParseString(str, i)
           colon == SkipWs(str, key.next)
           val == ParseValue(str, colon + 1)
           sep == SkipWs(str, val.next)
           members == Append(acc, <<key.v.v, val.v>>)
       IN IF ~key.ok THEN ParseFail
          ELSE IF colon > Len(str) \/ str[colon] # ":" THEN ParseFail
          ELSE IF ~val.ok THEN ParseFail
          ELSE IF sep > Len(str) THEN ParseFail
          ELSE IF str[sep] = "}" THEN ParseOk(ParsedObject(members), sep + 1)
          ELSE IF str[sep] = "," THEN ParseMembers(str, SkipWs(str, sep + 1), members)
          ELSE ParseFail

ParseElements(str, i, acc) ==
  LET val == ParseValue(str, i)
      sep == SkipWs(str, val.next)
      items == Append(acc, val.v)
  IN IF ~val.ok THEN ParseFail
     ELSE IF sep > Len(str) THEN ParseFail
     ELSE IF str[sep] = "]" THEN ParseOk(JsonArray(items), sep + 1)
     ELSE IF str[sep] = "," THEN ParseElements(str, sep + 1, items)
     ELSE ParseFail

JsonSyntaxError == Throw("Unexpected token in JSON")

\* JSON.parse(str)
JsonParse(str) ==
  LET r == ParseValue(str, 1)
  IN IF r.ok /\ SkipWs(str, r.next) > Len(str) THEN Return(r.v) ELSE JsonSyntaxError

\* parsedData[key]: the last member of that name, undefined if there is none
\* or parsedData is an array
Prop(parsedData, key) ==
  LET at == IF parsedData.t = "object"
              THEN { i \in 1..Len(parsedData.members) : parsedData.members[i][1] = key }
              ELSE {}
  IN IF at = {} THEN Undefined ELSE parsedData.members[MaxOf(at)][2]

ACTION_KEY == <<"a", "c", "t", "i", "o", "n">>
AMOUNT_KEY == <<"a", "m", "o", "u", "n", "t">>
RECIPIENT_KEY == <<"r", "e", "c", "i", "p", "i", "e", "n", "t">>
CONFIDENCE_KEY == <<"c", "o", "n", "f", "i", "d", "e", "n", "c", "e">>
REASONING_KEY == <<"r", "e", "a", "s", "o", "n", "i", "n", "g">>

\* the five properties parseVoiceCommand reads from parsedData
PayloadOf(parsedData) ==
  [action |-> Prop(parsedData, ACTION_KEY), amount |-> Prop(parsedData, AMOUNT_KEY),
   recipient |-> Prop(parsedData, RECIPIENT_KEY),
   confidence |-> Prop(parsedData, CONFIDENCE_KEY),
   reasoning |-> Prop(parsedData, REASONING_KEY)]

\* parseVoiceCommand, "Parse JSON response": the inner try block
ExtractJson_lazy(text_response) ==
  LET trimmed == Trim(text_response)
      jsonMatch == IF FenceMatch(trimmed, FENCE_JSON).matched
                     THEN FenceMatch(trimmed, FENCE_JSON)
                     ELSE FenceMatch(trimmed, FENCE)
      unfenced == IF jsonMatch.matched THEN jsonMatch.group ELSE trimmed
      jsonObjectMatch == ObjectMatch_lazy(unfenced)
      jsonText == IF jsonObjectMatch.matched THEN jsonObjectMatch.group ELSE unfenced
  IN JsonParse(jsonText)

ExtractJson(text_response) ==
  LET trimmed == Trim(text_response)
      jsonMatch == IF FenceMatch(trimmed, FENCE_JSON).matched
                     THEN FenceMatch(trimmed, FENCE_JSON)
                     ELSE FenceMatch(trimmed, FENCE)
      unfenced == IF jsonMatch.matched THEN jsonMatch.group ELSE trimmed
      jsonObjectMatch == ObjectMatch(unfenced)
      jsonText == IF jsonObjectMatch.matched THEN jsonObjectMatch.group ELSE unfenced
  IN JsonParse(jsonText)

\* parseVoiceCommand from extractText's answer to the return
HandleText(text, text_response) ==
  LET parsed == ExtractJson(text_response)
  IN IF Len(text_response) = 0 THEN Throw("Failed to get response from AI")
     ELSE IF parsed.t = "throw" THEN Throw("Failed to parse AI response as JSON")
     ELSE IF ~Truthy(parsed.v) \/ parsed.v.t \notin {"object", "array"}
       THEN Throw("Invalid parsed data structure")
     ELSE Return(ValidateParsedData(text, PayloadOf(parsed.v)))

\* parseVoiceCommand, input validation
TextIsInvalid(text) ==
  ~Truthy(text) \/ ~IsString(text) \/ Len(Trim(text.v)) = 0

\* parseVoiceCommand after generateWithRetry returned: extractText, the JSON
\* parse and the structure check.  A response is [kind, data]: "notext" (no
\* candidate text), "nonjson" (JSON.parse throws), "nonobject" (JSON.parse
\* gives null or a primitive), "object" (data is the parsed object), "text"
\* (data is the candidate text itself, taken through the extraction).
HandleResponse(text, response) ==
  CASE response.kind = "notext" -> Throw("Failed to get response from AI")
    [] response.kind = "nonjson" -> Throw("Failed to parse AI response as JSON")
    [] response.kind = "nonobject" -> Throw("Invalid parsed data structure")
    [] response.kind = "text" -> HandleText(text, response.data.v)
    [] OTHER -> Return(ValidateParsedData(text, response.data))

\* parseVoiceCommand, the catch block around the whole body
ParseCatch_rethrow(text, completion) == completion

ParseCatch(text, completion) ==
  IF completion.t = "throw"
    THEN Return([error |-> [code |-> "PARSING_FAILED",
                            message |-> "Failed to parse voice command",
                            details |-> completion.message],
                 rawText |-> text])
    ELSE completion

\* generateWithRetry: the loop condition, and the error thrown after the loop
LoopContinues_offByOne(attemptNo) == attemptNo <= MaxRetries + 1

LoopContinues(attemptNo) == attemptNo <= MaxRetries

\* generateWithRetry: const waitTime = 1000 * attempt
WaitTime_constant(attemptNo) == BackoffUnit

WaitTime(attemptNo) == BackoffUnit * attemptNo

GenerationFailed(lastErr) ==
  Throw(<<"AI generation failed after ", MaxRetries, " attempts: ", lastErr>>)

\* ------------------------------------------------------------------------
\* Backend: speechService
\* ------------------------------------------------------------------------

TranscribeMaxRetries == 3
MinAudioSize == 1024
MaxAudioSize == 104857600

\* String.prototype.includes
Includes(str, sub) ==
  \E i \in 0..(Len(str) - Len(sub)) : SubSeq(str, i + 1, i + Len(sub)) = sub

QUALITY == <<"q", "u", "a", "l", "i", "t", "y">>
EMPTY == <<"e", "m", "p", "t", "y">>

AUDIO_QUALITY_INSUFFICIENT ==
  <<"A", "u", "d", "i", "o", " ">> \o QUALITY \o <<" ", "i", "s", " ", "i", "n", "s", "u", "f",
    "f", "i", "c", "i", "e", "n", "t">>

NO_SPEECH_DETECTED ==
  <<"N", "o", " ", "s", "p", "e", "e", "c", "h", " ", "d", "e", "t", "e", "c", "t", "e", "d">>

\* validateAudioQuality, on the length of the buffer
ValidateAudioQuality(size) ==
  ~(size = 0 \/ size < MinAudioSize \/ size > MaxAudioSize)

\* transcribeAudio once client.recognize answered with one transcript
TranscribeAudio(transcript) ==
  IF Len(Trim(transcript)) = 0 THEN Throw(NO_SPEECH_DETECTED) ELSE Return(Chars(Trim(transcript)))

\* transcribeAudioWithRetry: the loop condition, the errors that are not
\* retried, the delay before the next attempt, the error after the loop
SpeechLoopContinues_oneMore(attemptNo, maxRetries) == attemptNo <= maxRetries + 1

SpeechLoopContinues(attemptNo, maxRetries) == attemptNo <= maxRetries

NotRetried(msg) == Includes(msg, QUALITY) \/ Includes(msg, EMPTY)

SpeechDelay(attemptNo) == (2 ^ attemptNo) * 1000

TranscriptionFailed(maxRetries, lastMsg) ==
  Throw(<<"Transcription failed after ", maxRetries, " attempts: ", lastMsg>>)

\* ------------------------------------------------------------------------
\* Inputs of the parser: the caller's text, the backend's behaviour
\* ------------------------------------------------------------------------

ADDR_LOWER == <<"0", "x">> \o Rep("a", AddressHexLen)
ADDR_MIXED == <<"0", "x">> \o Rep("A", 20) \o Rep("9", AddressHexLen - 20)
ADDR_SHORT == <<"0", "x">> \o Rep("a", AddressHexLen - 1)
ADDR_LONG == <<"0", "x">> \o Rep("a", AddressHexLen + 1)
ADDR_BADHEX == <<"0", "x">> \o Rep("a", AddressHexLen - 1) \o <<"g">>
ADDR_UPPERX == <<"0", "X">> \o Rep("a", AddressHexLen)
ADDR_PADDED == <<" ">> \o ADDR_LOWER \o <<" ">>
ENS_NAME == <<"a", "l", "i", "c", "e", ".", "e", "t", "h">>

Texts ==
  { Chars(<<"s", "e", "n", "d">>), Chars(<<>>), Chars(<<" ", "\n">>),
    Undefined, Num(FALSE, <<"5">>, 1), Obj }

Actions ==
  { Chars(TRANSFER), Chars(<<"T", "r", "a", "n", "s", "f", "e", "r">>), Undefined, Obj }

\* 50, 0.5, 1e21, 1e-7, 0, -5, "50"
Amounts ==
  { Num(FALSE, <<"5">>, 2), Num(FALSE, <<"5">>, 0),
    Num(FALSE, <<"1">>, 22), Num(FALSE, <<"1">>, -6),
    Num(FALSE, <<"0">>, 1), Num(TRUE, <<"5">>, 1),
    Chars(<<"5", "0">>) }

Recipients ==
  { Chars(ADDR_LOWER), Chars(ADDR_MIXED), Chars(ADDR_SHORT), Chars(ADDR_LONG),
    Chars(ADDR_BADHEX), Chars(ADDR_UPPERX), Chars(ADDR_PADDED), Chars(ENS_NAME),
    Chars(<<>>), Undefined }

\* 95, 50, 49.9, 30, 150, "80"
Confidences ==
  { Num(FALSE, <<"9", "5">>, 2), Num(FALSE, <<"5">>, 2), Num(FALSE, <<"4", "9", "9">>, 2),
    Num(FALSE, <<"3">>, 2), Num(FALSE, <<"1", "5">>, 3), Chars(<<"8", "0">>) }

Reasonings == { Chars(<<"o", "k">>), Undefined }

Payloads ==
  [action : Actions, amount : Amounts, recipient : Recipients,
   confidence : Confidences, reasoning : Reasonings]

NoData == [action |-> Undefined, amount |-> Undefined, recipient |-> Undefined,
           confidence |-> Undefined, reasoning |-> Undefined]

\* Candidate texts of the model: up to MaxSegments pieces one after the other
MaxSegments == 2

Quoted(str) == <<"\"">> \o str \o <<"\"">>

Member(key, valueText) == Quoted(key) \o <<":">> \o valueText

\* {"action":"transfer","amount":50,"recipient":"0xaa...a","confidence":95<more>}
PayloadText(more) ==
  <<"{">> \o Member(ACTION_KEY, Quoted(TRANSFER)) \o <<",">>
  \o Member(AMOUNT_KEY, <<"5", "0">>) \o <<",">>
  \o Member(RECIPIENT_KEY, Quoted(ADDR_LOWER)) \o <<",">>
  \o Member(CONFIDENCE_KEY, <<"9", "5">>) \o more \o <<"}">>

VALID_JSON == PayloadText(<<>>)

\* the same with a member that holds objects: ,"meta":{"a":{}}
NESTED_JSON ==
  PayloadText(<<",">> \o Member(<<"m", "e", "t", "a">>,
                                 <<"{">> \o Member(<<"a">>, <<"{", "}">>) \o <<"}">>))

\* {"amount":1}
SECOND_JSON == <<"{">> \o Member(AMOUNT_KEY, <<"1">>) \o <<"}">>

Fenced(open, str) == open \o <<"\n">> \o str \o <<"\n">> \o FENCE

Segments ==
  { VALID_JSON, NESTED_JSON, SECOND_JSON, <<"}">>,
    Fenced(FENCE_JSON, VALID_JSON), Fenced(FENCE, VALID_JSON), FENCE_JSON \o <<"\n">>,
    <<"S", "u", "r", "e", ":", " ">>, <<"[", "]">>, <<"n", "u", "l", "l">>, <<" ">> }

RECURSIVE TextsOf(_)
TextsOf(n) ==
  IF n = 0 THEN {<<>>}
  ELSE TextsOf(n - 1) \cup { t \o g : t \in TextsOf(n - 1), g \in Segments }

ModelTexts == TextsOf(MaxSegments)

Responses ==
  { [kind |-> k, data |-> NoData] : k \in {"notext", "nonjson", "nonobject"} }
  \cup { [kind |-> "object", data |-> d] : d \in Payloads }
  \cup { [kind |-> "text", data |-> Chars(t)] : t \in ModelTexts }

NoResponse == [kind |-> "none", data |-> NoData]

\* Messages of the errors the generative backend throws
ErrMsgs == {"quota exceeded", "deadline exceeded"}

\* ------------------------------------------------------------------------
\* Frontend: mneeService and the helpers of VoiceTransfer
\* ------------------------------------------------------------------------

Decimals == 18

\* String.prototype.split('.')
RECURSIVE SplitDot(_)
SplitDot(str) ==
  IF \A i \in 1..Len(str) : str[i] # "."
    THEN <<str>>
    ELSE LET i == CHOOSE j \in 1..Len(str) :
                    str[j] = "." /\ \A h \in 1..(j - 1) : str[h] # "."
         IN <<SubSeq(str, 1, i - 1)>> \o SplitDot(SubSeq(str, i + 1, Len(str)))

\* fraction.padEnd(decimals, '0').slice(0, decimals)
PadFraction_noPad(fraction, decimals) ==
  IF Len(fraction) >= decimals THEN SubSeq(fraction, 1, decimals) ELSE fraction

PadFraction(fraction, decimals) ==
  IF Len(fraction) >= decimals
    THEN SubSeq(fraction, 1, decimals)
    ELSE fraction \o Rep("0", decimals - Len(fraction))

\* parseMNEEAmount(amount, decimals): a BigInt, or the SyntaxError of BigInt()
ParseMNEEAmount(amount, decimals) ==
  IF Len(amount) = 0 THEN Big(<<"0">>)
  ELSE LET parts == SplitDot(amount)
           whole == parts[1]
           fraction == IF Len(parts) >= 2 THEN parts[2] ELSE <<>>
       IN BigIntOf(whole \o PadFraction(fraction, decimals))

\* balanceRaw as useMNEEBalance returns it: data || 0n
BalanceRawOf(data) == IF data = Undefined \/ data.d = <<"0">> THEN Big(<<"0">>) ELSE data

BigTruthy(b) == b.d # <<"0">>

\* fraction.replace(/(0+)$/, '')
TrimTrailingZeros_leading(str) == IF Len(str) = 0 THEN str ELSE StripZeros(str)

RECURSIVE TrimTrailingZeros(_)
TrimTrailingZeros(str) ==
  IF Len(str) > 0 /\ str[Len(str)] = "0"
    THEN TrimTrailingZeros(SubSeq(str, 1, Len(str) - 1))
    ELSE str

\* String.prototype.padStart(n, '0')
PadStart(str, n) == IF Len(str) < n THEN Rep("0", n - Len(str)) \o str ELSE str

\* formatUnits of viem: the decimal digits of value with the point put
\* decimals places from the right, trailing zeros of the fraction dropped
FormatUnits(value, decimals) ==
  LET display == PadStart(value.d, decimals)
      integer == SubSeq(display, 1, Len(display) - decimals)
      fraction == TrimTrailingZeros(SubSeq(display, Len(display) - decimals + 1, Len(display)))
  IN (IF value.neg THEN <<"-">> ELSE <<>>)
       \o (IF Len(integer) = 0 THEN <<"0">> ELSE integer)
       \o (IF Len(fraction) = 0 THEN <<>> ELSE <<".">> \o fraction)

\* formatMNEEAmount(amount, decimals)
FormatMNEEAmount(amount, decimals) ==
  IF ~BigTruthy(amount) THEN <<"0">> ELSE FormatUnits(amount, decimals)

NotLoaded == [isValid |-> FALSE, message |-> <<"Balance or amount not loaded">>]

\* validateBalance of VoiceTransfer: a validation record, or the SyntaxError
\* that parseMNEEAmount lets through
ValidateBalance_noCompare(cmd, balance) ==
  IF cmd = Null \/ ~Truthy(cmd.amount) \/ ~BigTruthy(balance)
    THEN NotLoaded
    ELSE [isValid |-> TRUE, message |-> <<"">>]

ValidateBalance(cmd, balance) ==
  IF cmd = Null \/ ~Truthy(cmd.amount) \/ ~BigTruthy(balance)
    THEN NotLoaded
    ELSE LET amountInWei == ParseMNEEAmount(NumberToString(cmd.amount), Decimals)
         IN IF amountInWei.t = "throw" THEN amountInWei
            ELSE IF BigGreater(amountInWei, balance)
              THEN [isValid |-> FALSE,
                    message |-> <<"Insufficient balance (", cmd.amount, " MNEE required)">>]
              ELSE [isValid |-> TRUE, message |-> <<"">>]

\* An error of the wallet or the chain: its name, the phrases its message
\* includes, and the revert reason if the message carries one
TxError(name, phrases, reason) == [name |-> name, phrases |-> phrases, reason |-> reason]

GetTransactionErrorMessage_gasFirst(err) ==
  IF err = Null THEN <<"Transaction failed">>
  ELSE IF \/ "insufficient funds for gas" \in err.phrases
          \/ "insufficient funds for intrinsic transaction cost" \in err.phrases
    THEN <<"Insufficient gas: You need more ETH for gas fees">>
  ELSE IF \/ "User rejected" \in err.phrases
          \/ "user rejected" \in err.phrases
          \/ "User denied" \in err.phrases
          \/ err.name = "UserRejectedRequestError"
    THEN <<"Transaction cancelled: You rejected the transaction in your wallet">>
  ELSE IF "execution reverted" \in err.phrases
    THEN <<"Transaction reverted: ", IF err.reason # "" THEN err.reason ELSE "unknown reason">>
  ELSE <<"Transaction failed: ", err.phrases>>

GetTransactionErrorMessage(err) ==
  IF err = Null THEN <<"Transaction failed">>
  ELSE IF \/ "User rejected" \in err.phrases
          \/ "user rejected" \in err.phrases
          \/ "User denied" \in err.phrases
          \/ err.name = "UserRejectedRequestError"
    THEN <<"Transaction cancelled: You rejected the transaction in your wallet">>
  ELSE IF \/ "insufficient funds for gas" \in err.phrases
          \/ "insufficient funds for intrinsic transaction cost" \in err.phrases
    THEN <<"Insufficient gas: You need more ETH for gas fees">>
  ELSE IF "execution reverted" \in err.phrases
    THEN <<"Transaction reverted: ", IF err.reason # "" THEN err.reason ELSE "unknown reason">>
  ELSE <<"Transaction failed: ", err.phrases>>

\* ------------------------------------------------------------------------
\* One call of parseVoiceCommand as a process
\* ------------------------------------------------------------------------

VARIABLES
  text,         \* the argument of parseVoiceCommand
  pc,           \* "ready", "generate" (inside generateWithRetry's loop), "done"
  attempt,      \* generateWithRetry: the loop variable
  lastError,    \* generateWithRetry: message of the last caught error
  invocations,  \* number of model.generateContent calls made
  failures,     \* messages of the errors the backend threw, in order
  waits,        \* the setTimeout delays generateWithRetry awaited, in order
  response,     \* the response generateWithRetry returned, if any
  genOutcome,   \* completion of generateWithRetry
  result        \* completion of parseVoiceCommand

parserVars ==
  <<text, pc, attempt, lastError, invocations, failures, waits, response,
    genOutcome, result>>

VARIABLES
  isRecording,       \* useState of VoiceTransfer
  isProcessing,
  transcribedText,
  parsedCommand,     \* Null, or the ParsedCommand with the number of the parse that gave it
  error,             \* the red error line; the blue status line (message) is write-only and left out
  showConfirmation,
  recorderState,     \* mediaRecorderRef.current?.state
  flow,              \* where processAudio is suspended: "none", "transcribing", "parsing"
  timers,            \* pending setTimeout callbacks of the success handler
  balanceData,       \* useReadContract(balanceOf).data
  isConnected,       \* useAccount().isConnected
  writeStatus,       \* useWriteContract: "idle", "pending", "success", "error"
  transactionError,  \* writeError || receiptError, Null if none
  receiptStatus,     \* useWaitForTransactionReceipt: "idle", "loading", "success", "error"
  crashed,           \* a render of VoiceTransfer threw and the component is unmounted
  nTransfers,        \* number of calls of transfer (writeContract)
  lastTransfer,      \* arguments of the last call of transfer, with the command's number
  nCommands,         \* number of ParsedCommands received so far
  rejected,          \* numbers of the commands the user cancelled
  nConfirms,         \* number of clicks on Confirm (calls of handleConfirm)
  resetOwner,        \* number of the command whose confirmed transfer scheduled the latest pending reset, 0 if none
  severed            \* the wallet disconnected during the recording or processing that is still in flight

sessionVars ==
  <<isRecording, isProcessing, transcribedText, parsedCommand, error,
    showConfirmation, recorderState, flow, timers, balanceData, isConnected,
    writeStatus, transactionError, receiptStatus, crashed, nTransfers,
    lastTransfer, nCommands, rejected, nConfirms, resetOwner, severed>>

\* The amount conversions of mneeService, applied one after the other
VARIABLES
  amountIn,         \* the string given to parseMNEEAmount, Null if a BigInt is the input
  decimalsIn,       \* the decimals argument
  amountInWei,      \* parseMNEEAmount(amountIn, decimalsIn), or the BigInt given
  formattedAmount,  \* formatMNEEAmount(amountInWei, decimalsIn)
  reparsedAmount    \* parseMNEEAmount(formattedAmount, decimalsIn)

amountVars == <<amountIn, decimalsIn, amountInWei, formattedAmount, reparsedAmount>>

AmountStart ==
  /\ amountIn = Null
  /\ decimalsIn = Decimals
  /\ amountInWei = Pending
  /\ formattedAmount = Pending
  /\ reparsedAmount = Pending

\* validateAndResolveRecipient applied to one input
VARIABLES
  recipientIn,   \* the argument
  recipientResult     \* the object the promise resolves to, Pending before the call

validatorVars == <<recipientIn, recipientResult>>

ValidatorStart ==
  /\ recipientIn = Undefined
  /\ recipientResult = Pending

\* One request to POST /api/voice/parse, from VoiceTransfer or from any
\* other client, and its answer
VARIABLES
  client,         \* "VoiceTransfer" or "other"
  transcription,  \* what transcribeAudioWithRetry returns to the /transcribe handler
  reqPath,        \* path of the URL of the parse request
  reqBody,        \* req.body after express.json()
  routeState,     \* "none", "received", "parsing" (awaiting parseVoiceCommand), "responded"
  resStatus,      \* status of the response, 0 before it
  resBody         \* JSON body of the response

apiVars == <<client, transcription, reqPath, reqBody, routeState, resStatus, resBody>>

ApiStart ==
  /\ client = "other"
  /\ transcription = Undefined
  /\ reqPath = <<>>
  /\ reqBody = Undefined
  /\ routeState = "none"
  /\ resStatus = 0
  /\ resBody = Null

\* One call of transcribeAudioWithRetry(audioBuffer, options, 3) against a
\* speech backend that fails a number of calls and answers from then on
VARIABLES
  audioSize,       \* audioBuffer.length
  outage,          \* number of client.recognize calls that throw before the backend answers
  speechError,     \* message of the errors client.recognize throws
  spokenText,      \* the transcript of the backend's answers
  speechAttempt,   \* the loop variable, 0 before the call
  recognizeCalls,  \* number of client.recognize calls made
  speechDelays,    \* the setTimeout delays awaited, in order
  speechOutcome    \* completion of transcribeAudioWithRetry

speechVars ==
  <<audioSize, outage, speechError, spokenText, speechAttempt, recognizeCalls,
    speechDelays, speechOutcome>>

SpeechStart ==
  /\ audioSize = 0
  /\ outage = 0
  /\ speechError = <<>>
  /\ spokenText = <<>>
  /\ speechAttempt = 0
  /\ recognizeCalls = 0
  /\ speechDelays = <<>>
  /\ speechOutcome = Pending

\* getTransactionErrorMessage applied to one error
VARIABLES
  txErrorIn,     \* the argument
  txMessageOut   \* completion of the call, Pending before it

classifierVars == <<txErrorIn, txMessageOut>>

ClassifierStart ==
  /\ txErrorIn = Null
  /\ txMessageOut = Pending

\* the variables outside the parser and the session, and their start
restVars == <<amountVars, validatorVars, apiVars, speechVars, classifierVars>>

RestStart == AmountStart /\ ValidatorStart /\ ApiStart /\ SpeechStart /\ ClassifierStart

nonAmountVars == <<parserVars, sessionVars, validatorVars, apiVars, speechVars, classifierVars>>

nonValidatorVars == <<parserVars, sessionVars, amountVars, apiVars, speechVars, classifierVars>>

nonSpeechVars == <<parserVars, sessionVars, amountVars, validatorVars, apiVars, classifierVars>>

nonClassifierVars == <<parserVars, sessionVars, amountVars, validatorVars, apiVars, speechVars>>

vars == <<parserVars, sessionVars, restVars>>

\* The state of VoiceTransfer after its first render
SessionStart ==
  /\ isRecording = FALSE
  /\ isProcessing = FALSE
  /\ transcribedText = Chars(<<>>)
  /\ parsedCommand = Null
  /\ error = <<>>
  /\ showConfirmation = FALSE
  /\ recorderState = "none"
  /\ flow = "none"
  /\ timers = 0
  /\ balanceData = Undefined
  /\ isConnected = TRUE
  /\ writeStatus = "idle"
  /\ transactionError = Null
  /\ receiptStatus = "idle"
  /\ crashed = FALSE
  /\ nTransfers = 0
  /\ lastTransfer = Null
  /\ nCommands = 0
  /\ rejected = {}
  /\ nConfirms = 0
  /\ resetOwner = 0
  /\ severed = FALSE

ParserStart ==
  /\ pc = "ready"
  /\ attempt = 0
  /\ lastError = "undefined"
  /\ invocations = 0
  /\ failures = <<>>
  /\ waits = <<>>
  /\ response = NoResponse
  /\ genOutcome = Pending
  /\ result = Pending

ParserInit ==
  /\ text \in Texts
  /\ ParserStart
  /\ SessionStart
  /\ RestStart

\* parseVoiceCommand up to the call of generateWithRetry
ParseCall ==
  /\ pc = "ready"
  /\ IF TextIsInvalid(text)
       THEN /\ result' = ParseCatch(text, Throw("Command text is required"))
            /\ pc' = "done"
            /\ UNCHANGED attempt
       ELSE /\ pc' = "generate"
            /\ attempt' = 1
            /\ UNCHANGED result
  /\ UNCHANGED <<text, lastError, invocations, failures, waits, response, genOutcome>>
  /\ UNCHANGED <<sessionVars, restVars>>

\* One loop iteration whose generateContent call succeeds: generateWithRetry
\* returns and parseVoiceCommand runs to its end
GenerateSucceeds(r) ==
  /\ pc = "generate"
  /\ LoopContinues(attempt)
  /\ invocations' = invocations + 1
  /\ response' = r
  /\ genOutcome' = Return(r)
  /\ result' = ParseCatch(text, HandleResponse(text, r))
  /\ pc' = "done"
  /\ UNCHANGED <<text, attempt, lastError, failures, waits>>
  /\ UNCHANGED <<sessionVars, restVars>>

\* One loop iteration whose generateContent call throws e: the catch block,
\* the backoff wait and, after the last attempt, the throw after the loop
GenerateFails(e) ==
  /\ pc = "generate"
  /\ LoopContinues(attempt)
  /\ invocations' = invocations + 1
  /\ lastError' = e
  /\ failures' = Append(failures, e)
  /\ waits' = IF attempt < MaxRetries THEN Append(waits, WaitTime(attempt)) ELSE waits
  /\ attempt' = attempt + 1
  /\ IF LoopContinues(attempt + 1)
       THEN UNCHANGED <<pc, genOutcome, result>>
       ELSE /\ genOutcome' = GenerationFailed(e)
            /\ result' = ParseCatch(text, GenerationFailed(e))
            /\ pc' = "done"
  /\ UNCHANGED <<text, response>>
  /\ UNCHANGED <<sessionVars, restVars>>

ParserNext ==
  \/ ParseCall
  \/ \E r \in Responses : GenerateSucceeds(r)
  \/ \E e \in ErrMsgs : GenerateFails(e)

ParserSpec == ParserInit /\ [][ParserNext]_vars

\* ------------------------------------------------------------------------
\* The voice-transfer session: VoiceTransfer.jsx with the mneeService hooks
\* ------------------------------------------------------------------------

MaxCommands == 2
MaxTransfers == 2
MaxTimers == 1

SESSION_TEXT == Chars(<<"s", "e", "n", "d">>)

\* The ParsedCommands the /parse endpoint answers with: results of the parser
SessionPayloads ==
  { [action |-> Chars(TRANSFER), amount |-> a, recipient |-> r,
     confidence |-> Num(FALSE, <<"9", "5">>, 2), reasoning |-> Chars(<<"o", "k">>)] :
    <<a, r>> \in { <<Num(FALSE, <<"5">>, 2), Chars(ADDR_LOWER)>>,
                   <<Num(FALSE, <<"5">>, 0), Chars(ADDR_MIXED)>>,
                   <<Num(FALSE, <<"1">>, 22), Chars(ADDR_LOWER)>> } }

SessionCommands ==
  { c \in { ValidateParsedData(SESSION_TEXT, d) : d \in SessionPayloads } :
      "error" \notin DOMAIN c }

Transcripts == { SESSION_TEXT, Undefined }

\* no tokens and 10 tokens in base units (10 tokens cover the command of 0.5
\* and not the one of 50), and no balance read yet (which the hook reports
\* as 0n, as it does a balance of 0n)
Balances ==
  { Undefined, Big(<<"0">>), Big(<<"1">> \o Rep("0", 19)) }

WriteErrors ==
  { TxError("UserRejectedRequestError", {"User rejected the request."}, "") }

ReceiptErrors ==
  { TxError("CallExecutionError", {"execution reverted"}, "paused") }

balanceRaw == BalanceRawOf(balanceData)
isTransactionPending == writeStatus = "pending"
isTransactionConfirming == receiptStatus = "loading"
isTransactionConfirmed == receiptStatus = "success"

WithId(c, k) ==
  [action |-> c.action, amount |-> c.amount, recipient |-> c.recipient,
   confidence |-> c.confidence, rawText |-> c.rawText, id |-> k]

\* The render of VoiceTransfer evaluates validateBalance(); a throw there
\* unmounts the component
RenderThrows(cmd, balance) == "t" \in DOMAIN ValidateBalance(cmd, balance)

Render == crashed' = (crashed \/ RenderThrows(parsedCommand', BalanceRawOf(balanceData')))

balanceValidation == ValidateBalance(parsedCommand, balanceRaw)

\* What the JSX renders: which controls exist and which are disabled
StartShown == ~crashed /\ ~isRecording /\ ~isProcessing
StopShown == ~crashed /\ isRecording
ClearShown == ~crashed /\ Truthy(transcribedText)
ConfirmationShown == ~crashed /\ showConfirmation /\ parsedCommand # Null

ConfirmDisabled ==
  ~balanceValidation.isValid \/ isTransactionPending \/ isTransactionConfirming

CancelDisabled == isTransactionPending \/ isTransactionConfirming

\* startRecording; mic is the outcome of the browser checks and getUserMedia
StartRecording(mic) ==
  /\ StartShown
  /\ CASE mic = "denied" ->
            /\ error' = <<"Microphone access denied. Please enable it in browser settings.">>
            /\ UNCHANGED <<transcribedText, isRecording, recorderState>>
       [] mic = "error" ->
            /\ error' = <<"Microphone error: ", "NotFoundError">>
            /\ transcribedText' = Chars(<<>>)
            /\ UNCHANGED <<isRecording, recorderState>>
       [] OTHER ->
            /\ error' = <<>>
            /\ transcribedText' = Chars(<<>>)
            /\ isRecording' = TRUE
            /\ recorderState' = "recording"
  /\ UNCHANGED <<isProcessing, parsedCommand, showConfirmation, flow, timers,
                 balanceData, isConnected, writeStatus, transactionError,
                 receiptStatus, nTransfers, lastTransfer, nCommands, rejected>>
  /\ severed' = FALSE
  /\ UNCHANGED <<nConfirms, resetOwner>>
  /\ Render
  /\ UNCHANGED <<parserVars, restVars>>

\* stopRecording, and the onstop handler processAudio up to its first await;
\* audio is what was recorded: "empty" (no chunk), "short" (fails
\* validateAudio) or "good"
StopRecording(audio) ==
  /\ StopShown
  /\ recorderState = "recording"
  /\ recorderState' = "inactive"
  /\ isRecording' = FALSE
  /\ CASE audio = "empty" ->
            /\ UNCHANGED <<error, isProcessing, flow>>
       [] audio = "short" ->
            /\ error' = <<"Recording too short. Please speak for at least 1 second.">>
            /\ UNCHANGED <<isProcessing, flow>>
       [] OTHER ->
            /\ isProcessing' = TRUE
            /\ flow' = "transcribing"
            /\ UNCHANGED error
  /\ UNCHANGED <<transcribedText, parsedCommand, showConfirmation, timers,
                 balanceData, isConnected, writeStatus, transactionError,
                 receiptStatus, nTransfers, lastTransfer, nCommands, rejected>>
  /\ severed' = (severed /\ (isRecording' \/ isProcessing'))
  /\ UNCHANGED <<nConfirms, resetOwner>>
  /\ Render
  /\ UNCHANGED <<parserVars, restVars>>

\* processAudio resumes with the answer of /transcribe
TranscribeResponse(ok, t) ==
  /\ ~crashed
  /\ flow = "transcribing"
  /\ IF ok
       THEN /\ transcribedText' = t
            /\ flow' = "parsing"
            /\ UNCHANGED <<error, isProcessing>>
       ELSE /\ error' = <<"Processing failed: ", "Transcription failed">>
            /\ isProcessing' = FALSE
            /\ flow' = "none"
            /\ UNCHANGED transcribedText
  /\ UNCHANGED <<isRecording, parsedCommand, showConfirmation, recorderState,
                 timers, balanceData, isConnected, writeStatus, transactionError,
                 receiptStatus, nTransfers, lastTransfer, nCommands, rejected>>
  /\ severed' = (severed /\ (isRecording' \/ isProcessing'))
  /\ UNCHANGED <<nConfirms, resetOwner>>
  /\ Render
  /\ UNCHANGED <<parserVars, restVars>>

\* processAudio resumes with what parseCommand returned: Null (the request
\* failed or was not answered 2xx) or the JSON of a ParsedCommand
ParseResponse(parsed) ==
  /\ ~crashed
  /\ flow = "parsing"
  /\ IF parsed # Null /\ parsed.action = Chars(TRANSFER)
       THEN /\ nCommands < MaxCommands
            /\ nCommands' = nCommands + 1
            /\ parsedCommand' = WithId(parsed, nCommands + 1)
            /\ showConfirmation' = TRUE
            /\ UNCHANGED error
       ELSE /\ error' = <<"Could not understand command. Try: \"send 50 MNEE to 0x...\"">>
            /\ UNCHANGED <<parsedCommand, showConfirmation, nCommands>>
  /\ isProcessing' = FALSE
  /\ flow' = "none"
  /\ UNCHANGED <<isRecording, transcribedText, recorderState, timers,
                 balanceData, isConnected, writeStatus, transactionError,
                 receiptStatus, nTransfers, lastTransfer, rejected>>
  /\ severed' = (severed /\ (isRecording' \/ isProcessing'))
  /\ UNCHANGED <<nConfirms, resetOwner>>
  /\ Render
  /\ UNCHANGED <<parserVars, restVars>>

\* clearTranscription, the button of the transcribed-text panel
ClearTranscription ==
  /\ ClearShown
  /\ transcribedText' = Chars(<<>>)
  /\ parsedCommand' = Null
  /\ showConfirmation' = FALSE
  /\ error' = <<>>
  /\ UNCHANGED <<isRecording, isProcessing, recorderState, flow, timers,
                 balanceData, isConnected, writeStatus, transactionError,
                 receiptStatus, nTransfers, lastTransfer, nCommands, rejected>>
  /\ UNCHANGED <<nConfirms, resetOwner, severed>>
  /\ Render
  /\ UNCHANGED <<parserVars, restVars>>

\* handleConfirm, the Confirm button; transfer() is writeContract, which
\* starts a new mutation (its earlier hash and error are dropped)
HandleConfirm_noAmountConversion ==
  /\ ConfirmationShown
  /\ ~ConfirmDisabled
  /\ nTransfers < MaxTransfers
  /\ nTransfers' = nTransfers + 1
  /\ lastTransfer' = [to |-> parsedCommand.recipient,
                      amount |-> BigIntOf(NumberToString(parsedCommand.amount)),
                      id |-> parsedCommand.id]
  /\ writeStatus' = "pending"
  /\ receiptStatus' = "idle"
  /\ transactionError' = Null
  /\ UNCHANGED <<isRecording, isProcessing, transcribedText, parsedCommand, error,
                 showConfirmation, recorderState, flow, timers, balanceData,
                 isConnected, nCommands, rejected>>
  /\ nConfirms' = nConfirms + 1
  /\ UNCHANGED <<resetOwner, severed>>
  /\ Render
  /\ UNCHANGED <<parserVars, restVars>>

HandleConfirm ==
  /\ ConfirmationShown
  /\ ~ConfirmDisabled
  /\ IF parsedCommand = Null
       THEN UNCHANGED <<error, nTransfers, lastTransfer, writeStatus,
                        receiptStatus, transactionError>>
       ELSE LET validation == ValidateBalance(parsedCommand, balanceRaw)
            IN IF ~validation.isValid
                 THEN /\ error' = validation.message
                      /\ UNCHANGED <<nTransfers, lastTransfer, writeStatus,
                                     receiptStatus, transactionError>>
                 ELSE /\ nTransfers < MaxTransfers
                      /\ nTransfers' = nTransfers + 1
                      /\ lastTransfer' =
                           [to |-> parsedCommand.recipient,
                            amount |-> ParseMNEEAmount(NumberToString(parsedCommand.amount), Decimals),
                            id |-> parsedCommand.id]
                      /\ writeStatus' = "pending"
                      /\ receiptStatus' = "idle"
                      /\ transactionError' = Null
                      /\ UNCHANGED error
  /\ UNCHANGED <<isRecording, isProcessing, transcribedText, parsedCommand,
                 showConfirmation, recorderState, flow, timers, balanceData,
                 isConnected, nCommands, rejected>>
  /\ nConfirms' = nConfirms + 1
  /\ UNCHANGED <<resetOwner, severed>>
  /\ Render
  /\ UNCHANGED <<parserVars, restVars>>

\* handleReject, the Cancel button
HandleReject_keepsCommand ==
  /\ ConfirmationShown
  /\ ~CancelDisabled
  /\ showConfirmation' = FALSE
  /\ rejected' = rejected \cup {parsedCommand.id}
  /\ UNCHANGED <<isRecording, isProcessing, transcribedText, parsedCommand, error,
                 recorderState, flow, timers, balanceData, isConnected, writeStatus,
                 transactionError, receiptStatus, nTransfers, lastTransfer, nCommands>>
  /\ UNCHANGED <<nConfirms, resetOwner, severed>>
  /\ Render
  /\ UNCHANGED <<parserVars, restVars>>

HandleReject ==
  /\ ConfirmationShown
  /\ ~CancelDisabled
  /\ showConfirmation' = FALSE
  /\ parsedCommand' = Null
  /\ rejected' = rejected \cup {parsedCommand.id}
  /\ UNCHANGED <<isRecording, isProcessing, transcribedText, error, recorderState,
                 flow, timers, balanceData, isConnected, writeStatus,
                 transactionError, receiptStatus, nTransfers, lastTransfer, nCommands>>
  /\ UNCHANGED <<nConfirms, resetOwner, severed>>
  /\ Render
  /\ UNCHANGED <<parserVars, restVars>>

\* useWriteContract: the wallet signs and submits; the receipt query starts
WalletSigns ==
  /\ writeStatus = "pending"
  /\ writeStatus' = "success"
  /\ receiptStatus' = "loading"
  /\ UNCHANGED <<isRecording, isProcessing, transcribedText, parsedCommand, error,
                 showConfirmation, recorderState, flow, timers, balanceData,
                 isConnected, transactionError, nTransfers, lastTransfer, nCommands,
                 rejected>>
  /\ UNCHANGED <<nConfirms, resetOwner, severed>>
  /\ Render
  /\ UNCHANGED <<parserVars, restVars>>

WalletRejects_dropsCommand(err) ==
  /\ writeStatus = "pending"
  /\ writeStatus' = "error"
  /\ transactionError' = err
  /\ IF crashed THEN UNCHANGED <<error, parsedCommand, showConfirmation>>
     ELSE /\ error' = GetTransactionErrorMessage(err)
          /\ parsedCommand' = Null
          /\ showConfirmation' = FALSE
  /\ UNCHANGED <<isRecording, isProcessing, transcribedText,
                 recorderState, flow, timers, balanceData,
                 isConnected, receiptStatus, nTransfers, lastTransfer, nCommands,
                 rejected>>
  /\ UNCHANGED <<nConfirms, resetOwner, severed>>
  /\ Render
  /\ UNCHANGED <<parserVars, restVars>>

WalletRejects_autoRetry(err) ==
  /\ writeStatus = "pending"
  /\ nTransfers < MaxTransfers
  /\ nTransfers' = nTransfers + 1
  /\ UNCHANGED <<isRecording, isProcessing, transcribedText, parsedCommand, error,
                 showConfirmation, recorderState, flow, timers, balanceData,
                 isConnected, writeStatus, transactionError, receiptStatus,
                 lastTransfer, nCommands, rejected, nConfirms, resetOwner, severed>>
  /\ Render
  /\ UNCHANGED <<parserVars, restVars>>

\* useWriteContract fails with err; the transaction error handler effect runs
WalletRejects(err) ==
  /\ writeStatus = "pending"
  /\ writeStatus' = "error"
  /\ transactionError' = err
  /\ IF crashed THEN UNCHANGED error
     ELSE /\ error' = GetTransactionErrorMessage(err)
  /\ UNCHANGED <<isRecording, isProcessing, transcribedText, parsedCommand,
                 showConfirmation, recorderState, flow, timers, balanceData,
                 isConnected, receiptStatus, nTransfers, lastTransfer, nCommands,
                 rejected>>
  /\ UNCHANGED <<nConfirms, resetOwner, severed>>
  /\ Render
  /\ UNCHANGED <<parserVars, restVars>>

\* useWaitForTransactionReceipt succeeds; the transaction success handler
\* effect runs and schedules the delayed reset
ReceiptSucceeds ==
  /\ receiptStatus = "loading"
  /\ receiptStatus' = "success"
  /\ IF crashed THEN UNCHANGED <<error, timers, resetOwner>>
     ELSE /\ timers < MaxTimers
          /\ error' = <<>>
          /\ timers' = timers + 1
          /\ resetOwner' = lastTransfer.id
  /\ UNCHANGED <<isRecording, isProcessing, transcribedText, parsedCommand,
                 showConfirmation, recorderState, flow, balanceData, isConnected,
                 writeStatus, transactionError, nTransfers, lastTransfer, nCommands,
                 rejected>>
  /\ UNCHANGED <<nConfirms, severed>>
  /\ Render
  /\ UNCHANGED <<parserVars, restVars>>

\* A later render while the transaction is confirmed: the success handler's
\* dependencies refetchBalance and onTransactionComplete are new functions on
\* every render, so the effect runs again
SuccessEffectRerun ==
  /\ ~crashed
  /\ isTransactionConfirmed
  /\ timers < MaxTimers
  /\ error' = <<>>
  /\ timers' = timers + 1
  /\ resetOwner' = lastTransfer.id
  /\ UNCHANGED <<isRecording, isProcessing, transcribedText, parsedCommand,
                 showConfirmation, recorderState, flow, balanceData, isConnected,
                 writeStatus, transactionError, receiptStatus, nTransfers,
                 lastTransfer, nCommands, rejected>>
  /\ UNCHANGED <<nConfirms, severed>>
  /\ Render
  /\ UNCHANGED <<parserVars, restVars>>

\* useWaitForTransactionReceipt fails with err; the error handler effect runs
ReceiptFails(err) ==
  /\ receiptStatus = "loading"
  /\ receiptStatus' = "error"
  /\ transactionError' = err
  /\ IF crashed THEN UNCHANGED error
     ELSE /\ error' = GetTransactionErrorMessage(err)
  /\ UNCHANGED <<isRecording, isProcessing, transcribedText, parsedCommand,
                 showConfirmation, recorderState, flow, timers, balanceData,
                 isConnected, writeStatus, nTransfers, lastTransfer, nCommands,
                 rejected>>
  /\ UNCHANGED <<nConfirms, resetOwner, severed>>
  /\ Render
  /\ UNCHANGED <<parserVars, restVars>>

\* The setTimeout callback of the success handler, 3000 ms after it ran
TimerFires ==
  /\ timers > 0
  /\ timers' = timers - 1
  /\ resetOwner' = (IF timers = 1 THEN 0 ELSE resetOwner)
  /\ IF crashed THEN UNCHANGED <<parsedCommand, showConfirmation, transcribedText>>
     ELSE /\ parsedCommand' = Null
          /\ showConfirmation' = FALSE
          /\ transcribedText' = Chars(<<>>)
  /\ UNCHANGED <<isRecording, isProcessing, error, recorderState, flow,
                 balanceData, isConnected, writeStatus, transactionError,
                 receiptStatus, nTransfers, lastTransfer, nCommands, rejected>>
  /\ UNCHANGED <<nConfirms, severed>>
  /\ Render
  /\ UNCHANGED <<parserVars, restVars>>

\* useMNEEBalance: the balance read returns b (a new block, a refetch)
BalanceUpdate(b) ==
  /\ isConnected
  /\ b # balanceData
  /\ balanceData' = b
  /\ UNCHANGED <<isRecording, isProcessing, transcribedText, parsedCommand, error,
                 showConfirmation, recorderState, flow, timers, isConnected,
                 writeStatus, transactionError, receiptStatus, nTransfers,
                 lastTransfer, nCommands, rejected>>
  /\ UNCHANGED <<nConfirms, resetOwner, severed>>
  /\ Render
  /\ UNCHANGED <<parserVars, restVars>>

\* The wallet disconnects: useAccount gives no address, the balance read is
\* disabled and keeps or drops its data.  VoiceTransfer.jsx does not read
\* useAccount and has no effect that depends on the connection
WalletDisconnects(keepData) ==
  /\ isConnected
  /\ isConnected' = FALSE
  /\ balanceData' = IF keepData THEN balanceData ELSE Undefined
  /\ UNCHANGED <<isRecording, isProcessing, transcribedText, parsedCommand, error,
                 showConfirmation, recorderState, flow, timers,
                 writeStatus, transactionError, receiptStatus, nTransfers,
                 lastTransfer, nCommands, rejected>>
  /\ severed' = (isRecording \/ isProcessing)
  /\ UNCHANGED <<nConfirms, resetOwner>>
  /\ Render
  /\ UNCHANGED <<parserVars, restVars>>

WalletConnects ==
  /\ ~isConnected
  /\ isConnected' = TRUE
  /\ UNCHANGED <<isRecording, isProcessing, transcribedText, parsedCommand, error,
                 showConfirmation, recorderState, flow, timers, balanceData,
                 writeStatus, transactionError, receiptStatus, nTransfers,
                 lastTransfer, nCommands, rejected>>
  /\ UNCHANGED <<nConfirms, resetOwner, severed>>
  /\ Render
  /\ UNCHANGED <<parserVars, restVars>>

SessionInit ==
  /\ text = SESSION_TEXT
  /\ ParserStart
  /\ SessionStart
  /\ RestStart

SessionNext ==
  \/ \E mic \in {"ok", "denied", "error"} : StartRecording(mic)
  \/ \E audio \in {"empty", "short", "good"} : StopRecording(audio)
  \/ \E ok \in BOOLEAN, t \in Transcripts : TranscribeResponse(ok, t)
  \/ \E parsed \in SessionCommands \cup {Null} : ParseResponse(parsed)
  \/ ClearTranscription
  \/ HandleConfirm
  \/ HandleReject
  \/ WalletSigns
  \/ \E err \in WriteErrors : WalletRejects(err)
  \/ ReceiptSucceeds
  \/ SuccessEffectRerun
  \/ \E err \in ReceiptErrors : ReceiptFails(err)
  \/ TimerFires
  \/ \E b \in Balances : BalanceUpdate(b)
  \/ \E keepData \in BOOLEAN : WalletDisconnects(keepData)
  \/ WalletConnects

SessionSpec == SessionInit /\ [][SessionNext]_vars

\* ------------------------------------------------------------------------
\* Properties of the parser
\* ------------------------------------------------------------------------

\* The address format ^0x[a-fA-F0-9]{40}$ as the specification states it
MatchesAddressFormat(x) ==
  /\ IsString(x)
  /\ Len(x.v) = 42
  /\ SubSeq(x.v, 1, 2) = <<"0", "x">>
  /\ AllIn(SubSeq(x.v, 3, 42), HexChars)

PositiveNumber(x) == IsNumber(x) /\ ~x.v.neg /\ x.v.s # <<"0">>

AtLeast50(x) == IsNumber(x) /\ ~NumLessThan(x, 50)

Answered == pc = "done" /\ response.kind = "object"

Returned == pc = "done" /\ result.t = "return"

ErrorFree == Returned /\ "error" \notin DOMAIN result.v

ErrorCode == IF Returned /\ "error" \in DOMAIN result.v THEN result.v.error.code ELSE "none"

PayloadComplete(p) ==
  /\ p.action = Chars(TRANSFER)
  /\ PositiveNumber(p.amount)
  /\ MatchesAddressFormat(p.recipient)
  /\ AtLeast50(p.confidence)

\* C1 (parser completeness): when the extractor's payload has action
\* "transfer", a number amount > 0, a recipient of the address format and a
\* number confidence >= 50, parseVoiceCommand returns an object without an
\* error field whose action, amount, recipient and confidence are the
\* payload's.
C1_ParserCompleteness ==
  (Answered /\ PayloadComplete(response.data)) =>
    /\ ErrorFree
    /\ result.v.action = response.data.action
    /\ result.v.amount = response.data.amount
    /\ result.v.recipient = response.data.recipient
    /\ result.v.confidence = response.data.confidence

C1_Witness ==
  /\ Answered
  /\ PayloadComplete(response.data)
  /\ response.data.recipient = Chars(ADDR_MIXED)
  /\ response.data.amount = Num(FALSE, <<"5">>, 0)
  /\ ErrorFree

\* C2 (ParsedCommand invariant): every returned value without an error field
\* has action "transfer", amount > 0, a recipient of the address format and
\* confidence >= 50.
C2_ParsedCommandInvariant ==
  ErrorFree =>
    /\ result.v.action = Chars(TRANSFER)
    /\ PositiveNumber(result.v.amount)
    /\ MatchesAddressFormat(result.v.recipient)
    /\ AtLeast50(result.v.confidence)

C2_Witness ==
  /\ ErrorFree
  /\ result.v.confidence = Num(FALSE, <<"5">>, 2)
  /\ Len(failures) = 2

\* The word of a missing-field entry that the message shows
FieldWord(entry) ==
  CASE entry = ACTION_FIELD -> "action"
    [] entry = AMOUNT_FIELD -> "amount"
    [] entry = RECIPIENT_FIELD -> "recipient"

MessageNames(msg, word) ==
  \E i \in 1..Len(msg[2]) : FieldWord(msg[2][i]) = word

ActionCheckFails(p) == p.action # Chars(TRANSFER)
AmountCheckFails(p) == ~PositiveNumber(p.amount)
RecipientCheckFails(p) == ~MatchesAddressFormat(p.recipient)

SomeCheckFails(p) == ActionCheckFails(p) \/ AmountCheckFails(p) \/ RecipientCheckFails(p)

\* C3 (missing-field detection): when at least one structural check fails on
\* the payload, the result is MISSING_PARAMETERS and its message names every
\* failed field, not only the first.
C3_MissingFieldDetection ==
  (Answered /\ SomeCheckFails(response.data)) =>
    /\ ErrorCode = "MISSING_PARAMETERS"
    /\ ActionCheckFails(response.data) => MessageNames(result.v.error.message, "action")
    /\ AmountCheckFails(response.data) => MessageNames(result.v.error.message, "amount")
    /\ RecipientCheckFails(response.data) => MessageNames(result.v.error.message, "recipient")

C3_Witness ==
  /\ Answered
  /\ response.data.recipient = Chars(ENS_NAME)
  /\ AmountCheckFails(response.data)
  /\ ~ActionCheckFails(response.data)
  /\ ErrorCode = "MISSING_PARAMETERS"
  /\ Len(result.v.error.message[2]) = 2

\* The confidence after normalisation (a non-number counts as 0) is below 50
ConfidenceLow(p) == ~AtLeast50(p.confidence)

\* C4 (ambiguity gate ordering): the result is AMBIGUOUS_COMMAND exactly when
\* all three structural checks pass and the confidence is below 50; when a
\* structural check fails the result is MISSING_PARAMETERS whatever the
\* confidence.
C4_AmbiguityGateOrdering ==
  /\ (ErrorCode = "AMBIGUOUS_COMMAND") <=>
       (Answered /\ ~SomeCheckFails(response.data) /\ ConfidenceLow(response.data))
  /\ (Answered /\ SomeCheckFails(response.data)) => ErrorCode = "MISSING_PARAMETERS"

C4_Witness ==
  /\ Answered
  /\ RecipientCheckFails(response.data)
  /\ response.data.confidence = Num(FALSE, <<"3">>, 2)
  /\ ~AmountCheckFails(response.data)
  /\ ErrorCode = "MISSING_PARAMETERS"

C4_WitnessAmbiguous ==
  /\ Answered
  /\ ~SomeCheckFails(response.data)
  /\ ErrorCode = "AMBIGUOUS_COMMAND"

C5_WitnessNoText ==
  /\ pc = "done"
  /\ text = Obj
  /\ invocations = 0
  /\ ErrorCode = "PARSING_FAILED"

\* C6 (extractor retry bound): at most 3 backend invocations in one call; no
\* invocation follows a successful one; the extractor fails only after 3
\* consecutive failed invocations, with a description that carries the message
\* of the third.
C6_RetryBound ==
  /\ [](invocations <= 3)
  /\ [][genOutcome.t = "return" => invocations' = invocations]_vars
  /\ [][(invocations' # invocations /\ genOutcome'.t = "return") =>
          (invocations' = Len(failures) + 1 /\ pc' = "done")]_vars
  /\ [](genOutcome.t = "throw" =>
          /\ invocations = 3
          /\ Len(failures) = 3
          /\ genOutcome.message[4] = failures[3])

C6_Witness ==
  /\ genOutcome.t = "throw"
  /\ Len(failures) = 3
  /\ failures[1] # failures[3]
  /\ result.v.error.details[4] = failures[3]

\* ------------------------------------------------------------------------
\* Properties of the voice-transfer session
\* ------------------------------------------------------------------------

\* amount x 10^18 as an integer (the digits of the number shifted by 18
\* places, what lies below one base unit cut off)
BaseUnits(x) ==
  LET k == Len(x.v.s)
      shift == x.v.n - k + 18
  IN IF shift >= 0 THEN Big(x.v.s \o Rep("0", shift))
     ELSE IF k + shift <= 0 THEN Big(<<"0">>)
     ELSE Big(SubSeq(x.v.s, 1, k + shift))

\* The phase of the session that the flags of the component stand for; the
\* transaction flags count for the command whose transfer they belong to
OwnTransaction == lastTransfer # Null /\ parsedCommand # Null /\ lastTransfer.id = parsedCommand.id

Phase ==
  IF isRecording THEN "recording"
  ELSE IF isProcessing THEN (IF flow = "parsing" THEN "parsing" ELSE "transcribing")
  ELSE IF showConfirmation /\ parsedCommand # Null THEN
    IF OwnTransaction /\ isTransactionPending THEN "executing"
    ELSE IF OwnTransaction /\ isTransactionConfirming THEN "pending"
    ELSE IF OwnTransaction /\ isTransactionConfirmed THEN "confirmed"
    ELSE IF OwnTransaction /\ receiptStatus = "error" THEN "failed"
    ELSE "confirming"
  ELSE "idle"

InsufficientBalance ==
  parsedCommand # Null /\ BigGreater(BaseUnits(parsedCommand.amount), balanceRaw)

ConfirmAvailable == ConfirmationShown /\ ~ConfirmDisabled

\* C7 (insufficient-balance gate): in every reachable state in which the
\* command's amount in base units exceeds the known balance, the confirm
\* action is not available, and no step from such a state calls transfer.
C7_InsufficientBalanceGate ==
  /\ [](InsufficientBalance => ~ConfirmAvailable)
  /\ [][InsufficientBalance => nTransfers' = nTransfers]_vars

C7_Witness ==
  /\ ConfirmationShown
  /\ parsedCommand.amount = Num(FALSE, <<"5">>, 2)
  /\ balanceData = Big(<<"1">> \o Rep("0", 19))
  /\ InsufficientBalance
  /\ ConfirmDisabled
  /\ nTransfers = 1

\* C8 (wallet-loss preemption), as the claim states it: a step in which the
\* wallet disconnects in a non-idle phase ends in the idle phase with
\* parsedCommand cleared.
C8_WalletLossPreemption ==
  [][(isConnected /\ ~isConnected' /\ Phase # "idle") =>
       (Phase' = "idle" /\ parsedCommand' = Null)]_vars

\* C9 (transfer parameters): every call of transfer gets the recipient of
\* parsedCommand and its amount in base units.
C9_TransferParameters ==
  [][nTransfers' # nTransfers =>
       /\ parsedCommand # Null
       /\ lastTransfer'.to = parsedCommand.recipient
       /\ lastTransfer'.amount = BaseUnits(parsedCommand.amount)]_vars

C9_Witness ==
  /\ nTransfers = 2
  /\ lastTransfer.to = Chars(ADDR_MIXED)
  /\ lastTransfer.amount = Big(<<"5">> \o Rep("0", 17))
  /\ writeStatus = "pending"

\* C10 (rejection cancels): a rejection in the confirming phase ends in the
\* idle phase with parsedCommand cleared and the confirmation closed, without
\* a call of transfer; and no later call of transfer is for a rejected command.
C10_RejectionCancels ==
  /\ [][(Phase = "confirming" /\ rejected' # rejected) =>
          /\ Phase' = "idle"
          /\ parsedCommand' = Null
          /\ ~showConfirmation'
          /\ nTransfers' = nTransfers]_vars
  /\ [][nTransfers' # nTransfers => lastTransfer'.id \notin rejected']_vars

C10_Witness ==
  /\ rejected = {1}
  /\ Phase = "executing"
  /\ lastTransfer.id = 2

\* C11 (no automatic retry): the number of calls of transfer never exceeds
\* the number of clicks on Confirm, and every call of transfer, also one after
\* a failed attempt, is made by a step that is a click on Confirm.
C11_NoAutomaticRetry ==
  /\ [](nTransfers <= nConfirms)
  /\ [][nTransfers' # nTransfers => nConfirms' = nConfirms + 1]_vars

C11_Witness ==
  /\ writeStatus = "error"
  /\ transactionError # Null
  /\ ConfirmationShown
  /\ nTransfers = 1
  /\ nConfirms = 1

\* C12 (single active flow), as the claim states it: in the phases
\* transcribing, parsing, confirming, executing and pending the control that
\* starts a recording is not available.
MidPipeline == {"transcribing", "parsing", "confirming", "executing", "pending"}

C12_SingleActiveFlow == Phase \in MidPipeline => ~StartShown

\* the stronger consequence the claim draws from it: no recording runs while
\* a parsed command is held
C12_NoSecondRecording == isRecording => parsedCommand = Null

\* C13 (cancellation window), as the claim states it: while a transfer is
\* being signed or awaits its receipt (executing, pending), no step that is
\* an action of the user changes parsedCommand or closes the confirmation.
UserAction ==
  \/ \E mic \in {"ok", "denied", "error"} : StartRecording(mic)
  \/ \E audio \in {"empty", "short", "good"} : StopRecording(audio)
  \/ ClearTranscription
  \/ HandleConfirm
  \/ HandleReject

C13_CancellationWindow ==
  [][(Phase \in {"executing", "pending"} /\ UserAction) =>
       (parsedCommand' = parsedCommand /\ showConfirmation' = showConfirmation)]_vars

\* ------------------------------------------------------------------------
\* The amount conversions: parseMNEEAmount, formatMNEEAmount, parseMNEEAmount
\* ------------------------------------------------------------------------

MaxAmountLen == 3
MaxDecimals == 18

AmountChars == {"0", "1", "5", ".", "-"}

\* every string of at most MaxAmountLen of these characters
AmountStrings == UNION { [1..n -> AmountChars] : n \in 0..MaxAmountLen }

\* base-unit integers: 0, small ones, around one token, 2^64 - 1, 2^128 - 1
WeiValues ==
  { Big(ds) : ds \in {
      <<"0">>,
      <<"1">>,
      <<"1", "0">>,
      <<"1", "5", "0">>,
      <<"9", "9", "9", "9", "9", "9", "9", "9", "9", "9", "9", "9", "9", "9", "9", "9", "9", "9">>,
      <<"1", "0", "0", "0", "0", "0", "0", "0", "0", "0", "0", "0", "0", "0", "0", "0", "0", "0", "0">>,
      <<"1", "5", "0", "0", "0", "0", "0", "0", "0", "0", "0", "0", "0", "0", "0", "0", "0", "0", "0">>,
      <<"1", "0", "0", "0", "0", "0", "0", "0", "0", "0", "0", "0", "0", "0", "0", "0", "0", "0", "0", "0", "0", "0">>,
      <<"1", "8", "4", "4", "6", "7", "4", "4", "0", "7", "3", "7", "0", "9", "5", "5", "1", "6", "1", "5">>,
      <<"3", "4", "0", "2", "8", "2", "3", "6", "6", "9", "2", "0", "9", "3", "8", "4", "6", "3", "4", "6", "3", "3", "7", "4", "6", "0", "7", "4", "3", "1", "7", "6", "8", "2", "1", "1", "4", "5", "5">> } }

AmountInit ==
  /\ text = SESSION_TEXT
  /\ ParserStart
  /\ SessionStart
  /\ ValidatorStart
  /\ ApiStart
  /\ SpeechStart
  /\ ClassifierStart
  /\ \/ /\ amountIn \in { Chars(a) : a \in AmountStrings }
        /\ decimalsIn \in 0..MaxDecimals
        /\ amountInWei = Pending
     \/ /\ amountIn = Null
        /\ decimalsIn = Decimals
        /\ amountInWei \in WeiValues
  /\ formattedAmount = Pending
  /\ reparsedAmount = Pending

ParseAmount ==
  /\ amountIn # Null
  /\ amountInWei = Pending
  /\ amountInWei' = ParseMNEEAmount(amountIn.v, decimalsIn)
  /\ UNCHANGED <<amountIn, decimalsIn, formattedAmount, reparsedAmount>>
  /\ UNCHANGED nonAmountVars

\* a SyntaxError of the first conversion ends the sequence
FormatAmount ==
  /\ amountInWei.t = "bigint"
  /\ formattedAmount = Pending
  /\ formattedAmount' = Chars(FormatMNEEAmount(amountInWei, decimalsIn))
  /\ UNCHANGED <<amountIn, decimalsIn, amountInWei, reparsedAmount>>
  /\ UNCHANGED nonAmountVars

ReparseAmount ==
  /\ formattedAmount # Pending
  /\ reparsedAmount = Pending
  /\ reparsedAmount' = ParseMNEEAmount(formattedAmount.v, decimalsIn)
  /\ UNCHANGED <<amountIn, decimalsIn, amountInWei, formattedAmount>>
  /\ UNCHANGED nonAmountVars

AmountNext == ParseAmount \/ FormatAmount \/ ReparseAmount

AmountSpec == AmountInit /\ [][AmountNext]_vars

\* C14 (amount round trip): for every amount string and every decimals
\* count in 0..18, parsing the formatted form of the parsed amount gives the
\* parsed amount again, as the same integer.
C14_AmountRoundTrip ==
  (amountIn # Null /\ reparsedAmount # Pending) => reparsedAmount = amountInWei

C14_Witness ==
  /\ amountIn = Chars(<<"1", ".", "5">>)
  /\ decimalsIn = 2
  /\ amountInWei = Big(<<"1", "5", "0">>)
  /\ formattedAmount = Chars(<<"1", ".", "5">>)
  /\ reparsedAmount = Big(<<"1", "5", "0">>)

\* C15 (exact left inverse): for every non-negative base-unit integer w,
\* with 18 decimals, parsing the formatted form of w gives w.
C15_ExactLeftInverse ==
  (amountIn = Null /\ reparsedAmount # Pending) =>
     (decimalsIn = 18 /\ ~amountInWei.neg /\ reparsedAmount = amountInWei)

C15_Witness ==
  /\ amountIn = Null
  /\ amountInWei = Big(<<"3", "4", "0", "2", "8", "2", "3", "6", "6", "9", "2", "0", "9", "3", "8", "4", "6", "3", "4", "6", "3", "3", "7", "4", "6", "0", "7", "4", "3", "1", "7", "6", "8", "2", "1", "1", "4", "5", "5">>)
  /\ formattedAmount = Chars(<<"3", "4", "0", "2", "8", "2", "3", "6", "6", "9", "2", "0", "9", "3", "8", "4", "6", "3", "4", "6", "3", ".", "3", "7", "4", "6", "0", "7", "4", "3", "1", "7", "6", "8", "2", "1", "1", "4", "5", "5">>)
  /\ reparsedAmount = amountInWei

\* ------------------------------------------------------------------------
\* The recipient validator: validateAndResolveRecipient
\* ------------------------------------------------------------------------

\* a Symbol, the value a template literal cannot convert to a string
Sym == [t |-> "symbol"]

DOT_ETH == <<".", "e", "t", "h">>

\* String.prototype.endsWith
EndsWith(str, suffix) ==
  /\ Len(str) >= Len(suffix)
  /\ SubSeq(str, Len(str) - Len(suffix) + 1, Len(str)) = suffix

InvalidRecipient(code, message) ==
  [valid |-> FALSE, error |-> [code |-> code, message |-> message]]

ValidateAndResolveRecipient(recipient) ==
  IF recipient.t = "symbol"
    THEN \* the template literal of the first console.log throws a TypeError
         InvalidRecipient("VALIDATION_FAILED", <<"Failed to validate recipient address">>)
  ELSE IF ~Truthy(recipient) \/ ~IsString(recipient) \/ Len(Trim(recipient.v)) = 0
    THEN InvalidRecipient("INVALID_ADDRESS", <<"Recipient address is required">>)
  ELSE LET trimmedRecipient == Chars(Trim(recipient.v))
       IN IF IsValidEthereumAddress(trimmedRecipient)
            THEN [valid |-> TRUE, address |-> trimmedRecipient, type |-> "address"]
          ELSE IF EndsWith(trimmedRecipient.v, DOT_ETH)
            THEN [valid |-> FALSE,
                  error |-> [code |-> "ENS_NOT_SUPPORTED",
                             message |-> <<"ENS name resolution is not yet supported. Please provide a valid Ethereum address (0x...)">>],
                  ensName |-> trimmedRecipient]
          ELSE InvalidRecipient("INVALID_ADDRESS_FORMAT",
                 <<"Invalid Ethereum address format. Address must start with 0x followed by 40 hexadecimal characters.">>)

\* The inputs: addresses and near-addresses, names and other text, each with
\* and without white space around it and ".eth" behind it; and non-strings
RecipientCores ==
  { ADDR_LOWER, ADDR_MIXED, ADDR_SHORT, ADDR_LONG, ADDR_BADHEX, ADDR_UPPERX,
    <<"0", "x">> \o Rep("F", AddressHexLen), <<"a", "l", "i", "c", "e">>,
    <<"0", "x">>, <<>> }

RecipientInputs ==
  { Chars(pad \o core \o suffix \o tail) :
      pad \in {<<>>, <<" ">>}, core \in RecipientCores,
      suffix \in {<<>>, DOT_ETH}, tail \in {<<>>, <<" ">>, <<"\n">>} }
  \cup { Undefined, Null, Num(FALSE, <<"5">>, 1), Num(FALSE, <<"0">>, 1), Obj, Sym }

ValidatorInit ==
  /\ text = SESSION_TEXT
  /\ ParserStart
  /\ SessionStart
  /\ AmountStart
  /\ ApiStart
  /\ SpeechStart
  /\ ClassifierStart
  /\ recipientIn \in RecipientInputs
  /\ recipientResult = Pending

Validate ==
  /\ recipientResult = Pending
  /\ recipientResult' = ValidateAndResolveRecipient(recipientIn)
  /\ UNCHANGED recipientIn
  /\ UNCHANGED nonValidatorVars

ValidatorNext == Validate

ValidatorSpec == ValidatorInit /\ [][ValidatorNext]_vars

Validated == recipientResult # Pending

ValidationCode == IF recipientResult.valid THEN "valid" ELSE recipientResult.error.code

Stripped(x) ==
  LET str == x.v
      first == { i \in 1..Len(str) : str[i] \notin WhiteSpace }
  IN IF first = {} THEN Chars(<<>>)
     ELSE Chars(SubSeq(str, CHOOSE i \in first : \A j \in first : i <= j,
                            CHOOSE i \in first : \A j \in first : i >= j))

JsonObject(fields) == [t |-> "object", fields |-> fields]

\* o.name, undefined for a property o does not have and for a non-object
Get(o, name) ==
  IF o.t = "object" /\ "fields" \in DOMAIN o /\ name \in DOMAIN o.fields
    THEN o.fields[name]
    ELSE Undefined

\* JSON.stringify then express.json(): properties whose value is undefined
\* are left out
ViaJson(o) ==
  JsonObject([n \in { k \in DOMAIN o.fields : o.fields[k] # Undefined } |-> o.fields[n]])

VOICE_MOUNT == <<"/", "a", "p", "i", "/", "v", "o", "i", "c", "e">>
PARSE_ROUTE == <<"/", "p", "a", "r", "s", "e">>

\* getApiUrl(path) of config.js, the part of the URL behind API_BASE
GetApiUrl(path) == IF Len(path) > 0 /\ path[1] = "/" THEN path ELSE <<"/">> \o path

\* the URL VoiceTransfer requests: `${getApiUrl()}/parse`
ClientParsePath == GetApiUrl(<<>>) \o PARSE_ROUTE

\* app.use('/api/voice', voiceRouter) and router.post('/parse'): the path
\* that reaches the handler (a trailing slash is accepted)
Routed(path) ==
  \/ path = VOICE_MOUNT \o PARSE_ROUTE
  \/ path = VOICE_MOUNT \o PARSE_ROUTE \o <<"/">>

\* the body of the request VoiceTransfer sends: JSON.stringify({ command: text })
ClientParseBody(t) == ViaJson(JsonObject([command |-> t]))

\* the body the /transcribe handler answers a transcription with (timestamp,
\* audioSize and options left out)
TranscribeBody(t) == JsonObject([transcription |-> t])

\* what processAudio reads out of it: const { text } = await res.json()
ClientReadsText(body) == Get(body, "text")

ErrorBody(code, message) == [error |-> [code |-> code, message |-> message]]

\* the request validation of the handler: the 400 answer, or Null to go on
RejectRequest(body) ==
  IF ~Truthy(body) \/ ~Truthy(Get(body, "text"))
    THEN ErrorBody("INVALID_REQUEST", "Text field is required in request body")
  ELSE IF ~IsString(Get(body, "text")) \/ Len(Trim(Get(body, "text").v)) = 0
    THEN ErrorBody("INVALID_TEXT", "Text must be a non-empty string")
  ELSE Null

\* the status the handler gives a result of parseVoiceCommand
StatusCode_ambiguous500(res) ==
  IF "error" \in DOMAIN res
    THEN IF res.error.code = "MISSING_PARAMETERS" THEN 400 ELSE 500
    ELSE 200

StatusCode(res) ==
  IF "error" \in DOMAIN res
    THEN IF res.error.code = "AMBIGUOUS_COMMAND" THEN 400
         ELSE IF res.error.code = "MISSING_PARAMETERS" THEN 400
         ELSE 500
    ELSE 200

NOT_FOUND == [error |-> "Not Found"]

\* fetch: res.ok
ResOk(status) == status >= 200 /\ status <= 299

\* Request bodies of other clients
ApiTexts ==
  { Chars(<<"s", "e", "n", "d">>), Chars(<<" ", "s", "e", "n", "d", "\n">>),
    Chars(<<>>), Chars(<<" ", "\n">>), Null,
    Num(FALSE, <<"5">>, 1), Num(FALSE, <<"0">>, 1), Obj }

ApiBodies ==
  { Undefined, JsonObject(<<>>),
    JsonObject([command |-> Chars(<<"s", "e", "n", "d">>)]) }
  \cup { JsonObject([text |-> t]) : t \in ApiTexts }

ApiPaths == { VOICE_MOUNT \o PARSE_ROUTE, VOICE_MOUNT \o PARSE_ROUTE \o <<"/">>, ClientParsePath }

\* What the recognizer hears
ApiTranscripts == { Chars(<<"s", "e", "n", "d">>) }

\* Answers of the generative backend: a complete payload, one of low
\* confidence, one without amount, and the three unusable kinds
ApiPayloads ==
  { [action |-> Chars(TRANSFER), amount |-> a, recipient |-> Chars(ADDR_LOWER),
     confidence |-> c, reasoning |-> Chars(<<"o", "k">>)] :
    <<a, c>> \in { <<Num(FALSE, <<"5">>, 2), Num(FALSE, <<"9", "5">>, 2)>>,
                   <<Num(FALSE, <<"5">>, 2), Num(FALSE, <<"3">>, 2)>>,
                   <<Num(FALSE, <<"0">>, 1), Num(FALSE, <<"9", "5">>, 2)>> } }

ApiResponses ==
  { [kind |-> k, data |-> NoData] : k \in {"notext", "nonjson", "nonobject"} }
  \cup { [kind |-> "object", data |-> d] : d \in ApiPayloads }

ApiInit ==
  /\ text = Undefined
  /\ ParserStart
  /\ SessionStart
  /\ AmountStart
  /\ ValidatorStart
  /\ SpeechStart
  /\ ClassifierStart
  /\ \/ /\ client = "other"
        /\ transcription = Undefined
        /\ reqPath \in ApiPaths
        /\ reqBody \in ApiBodies
        /\ routeState = "received"
     \/ /\ client = "VoiceTransfer"
        /\ transcription \in ApiTranscripts
        /\ reqPath = <<>>
        /\ reqBody = Undefined
        /\ routeState = "none"
  /\ resStatus = 0
  /\ resBody = Null

\* VoiceTransfer records, stops, and gets the answer of /transcribe
ClientRecords ==
  /\ client = "VoiceTransfer"
  /\ routeState = "none"
  /\ flow = "none"
  /\ StartRecording("ok")

ClientStops ==
  /\ client = "VoiceTransfer"
  /\ StopRecording("good")

ClientTranscribed ==
  /\ client = "VoiceTransfer"
  /\ TranscribeResponse(TRUE, ClientReadsText(TranscribeBody(transcription)))

\* parseCommand(text): the fetch of the parse request
ClientSendsParse ==
  /\ client = "VoiceTransfer"
  /\ flow = "parsing"
  /\ routeState = "none"
  /\ reqPath' = ClientParsePath
  /\ reqBody' = ClientParseBody(transcribedText)
  /\ routeState' = "received"
  /\ UNCHANGED <<client, transcription, resStatus, resBody>>
  /\ UNCHANGED <<parserVars, sessionVars, amountVars, validatorVars, speechVars, classifierVars>>

\* the 404 handler of server.js
NotFound ==
  /\ routeState = "received"
  /\ ~Routed(reqPath)
  /\ resStatus' = 404
  /\ resBody' = NOT_FOUND
  /\ routeState' = "responded"
  /\ UNCHANGED <<client, transcription, reqPath, reqBody>>
  /\ UNCHANGED <<parserVars, sessionVars, amountVars, validatorVars, speechVars, classifierVars>>

\* the handler of /parse up to the call of parseVoiceCommand
ParseRoute ==
  /\ routeState = "received"
  /\ Routed(reqPath)
  /\ IF RejectRequest(reqBody) # Null
       THEN /\ resStatus' = 400
            /\ resBody' = RejectRequest(reqBody)
            /\ routeState' = "responded"
            /\ UNCHANGED text
       ELSE /\ text' = Get(reqBody, "text")
            /\ routeState' = "parsing"
            /\ UNCHANGED <<resStatus, resBody>>
  /\ UNCHANGED <<client, transcription, reqPath, reqBody>>
  /\ UNCHANGED <<pc, attempt, lastError, invocations, failures, waits, response,
                 genOutcome, result>>
  /\ UNCHANGED <<sessionVars, amountVars, validatorVars, speechVars, classifierVars>>

\* the handler of /parse after parseVoiceCommand returned
ParseRouteResponds ==
  /\ routeState = "parsing"
  /\ pc = "done"
  /\ resStatus' = StatusCode(result.v)
  /\ resBody' = result.v
  /\ routeState' = "responded"
  /\ UNCHANGED <<client, transcription, reqPath, reqBody>>
  /\ UNCHANGED <<parserVars, sessionVars, amountVars, validatorVars, speechVars, classifierVars>>

\* parseCommand returns the JSON of a 2xx answer, null otherwise, and
\* processAudio goes on with it
ClientParseAnswered ==
  /\ client = "VoiceTransfer"
  /\ routeState = "responded"
  /\ ParseResponse(IF ResOk(resStatus) THEN resBody ELSE Null)

ApiNext ==
  \/ ClientRecords
  \/ ClientStops
  \/ ClientTranscribed
  \/ ClientSendsParse
  \/ NotFound
  \/ ParseRoute
  \/ routeState = "parsing" /\ ParseCall
  \/ \E r \in ApiResponses : routeState = "parsing" /\ GenerateSucceeds(r)
  \/ \E e \in ErrMsgs : routeState = "parsing" /\ GenerateFails(e)
  \/ ParseRouteResponds
  \/ ClientParseAnswered

ApiSpec == ApiInit /\ [][ApiNext]_vars

\* the text of the request, and whether it is missing, not a string or blank
RequestText == Get(reqBody, "text")

TextUnusable == ~IsString(RequestText) \/ Stripped(RequestText).v = <<>>

ClientErrorCodes == {"MISSING_PARAMETERS", "AMBIGUOUS_COMMAND"}

\* C17 (HTTP status mapping of POST /api/voice/parse): a request whose text
\* is missing, not a string or blank is answered 400 with INVALID_REQUEST or
\* INVALID_TEXT and the parser is not called; every other request is
\* answered with the parser's result, 200 exactly when it has no error, 400
\* exactly when its code is MISSING_PARAMETERS or AMBIGUOUS_COMMAND, 500
\* exactly when it has another code.
C17_HttpStatusMapping ==
  /\ (routeState \in {"received", "parsing", "responded"} /\ TextUnusable) =>
        (pc = "ready" /\ invocations = 0)
  /\ (routeState = "responded" /\ Routed(reqPath)) =>
        IF TextUnusable
          THEN /\ resStatus = 400
               /\ resBody.error.code \in {"INVALID_REQUEST", "INVALID_TEXT"}
          ELSE /\ Returned
               /\ resBody = result.v
               /\ resStatus = 200 <=> ErrorFree
               /\ resStatus = 400 <=> ErrorCode \in ClientErrorCodes
               /\ resStatus = 500 <=> ErrorCode \notin (ClientErrorCodes \cup {"none"})
               /\ resStatus \in {200, 400, 500}

C17_Witness ==
  /\ routeState = "responded"
  /\ Routed(reqPath)
  /\ resStatus = 400
  /\ ErrorCode = "AMBIGUOUS_COMMAND"
  /\ invocations = 2

\* C18 (text forwarding), as the claim states it: the parse request of
\* VoiceTransfer reaches the handler of /api/voice/parse and carries the
\* transcription in the text field.
C18_TextForwarding ==
  (client = "VoiceTransfer" /\ routeState # "none") =>
     (Routed(reqPath) /\ RequestText = transcription)

\* and its consequence: when the session has left the parsing phase after a
\* transcription, the parser was called with it
C18_ParserReached ==
  (client = "VoiceTransfer" /\ routeState = "responded" /\ flow = "none") =>
     (pc = "done" /\ text = transcription)

Between0And100(x) ==
  /\ IsNumber(x)
  /\ ~x.v.neg \/ NumIsZero(x)
  /\ NumLessThan(x, 100) \/ x = Num(FALSE, <<"1">>, 3)

\* C20 (confidence range), as the claim states it: every ParsedCommand that
\* parseVoiceCommand returns has a number confidence from 0 to 100.
C20_ConfidenceRange == ErrorFree => Between0And100(result.v.confidence)

\* ------------------------------------------------------------------------
\* transcribeAudioWithRetry as a process
\* ------------------------------------------------------------------------

MaxOutage == 4

AudioSizes == {0, MinAudioSize - 1, MinAudioSize, 10240, MaxAudioSize, MaxAudioSize + 1}

TRANSIENT_API_ERROR ==
  <<"T", "r", "a", "n", "s", "i", "e", "n", "t", " ", "A", "P", "I", " ", "e", "r", "r", "o", "r">>

EMPTY_REPLY == EMPTY \o <<" ", "r", "e", "p", "l", "y">>

SpeechErrors == {TRANSIENT_API_ERROR, EMPTY_REPLY}

SpokenTexts == {<<"s", "e", "n", "d">>, <<" ", "s", "e", "n", "d", "\n">>, <<" ">>, <<>>}

SpeechInit ==
  /\ text = SESSION_TEXT
  /\ ParserStart
  /\ SessionStart
  /\ AmountStart
  /\ ValidatorStart
  /\ ApiStart
  /\ ClassifierStart
  /\ audioSize \in AudioSizes
  /\ outage \in 0..MaxOutage
  /\ speechError \in SpeechErrors
  /\ spokenText \in SpokenTexts
  /\ speechAttempt = 1
  /\ recognizeCalls = 0
  /\ speechDelays = <<>>
  /\ speechOutcome = Pending

\* the catch block of the loop, the delay, and the throw after the loop
SpeechCaught(msg) ==
  IF NotRetried(msg)
    THEN /\ speechOutcome' = Throw(msg)
         /\ UNCHANGED <<speechAttempt, speechDelays>>
    ELSE /\ speechDelays' = IF speechAttempt < TranscribeMaxRetries
                              THEN Append(speechDelays, SpeechDelay(speechAttempt))
                              ELSE speechDelays
         /\ speechAttempt' = speechAttempt + 1
         /\ speechOutcome' = IF SpeechLoopContinues(speechAttempt + 1, TranscribeMaxRetries)
                               THEN speechOutcome
                               ELSE TranscriptionFailed(TranscribeMaxRetries, msg)

InSpeechLoop ==
  /\ speechOutcome = Pending
  /\ speechAttempt >= 1
  /\ SpeechLoopContinues(speechAttempt, TranscribeMaxRetries)

\* an iteration whose validateAudioQuality answers false
AudioRejected ==
  /\ InSpeechLoop
  /\ ~ValidateAudioQuality(audioSize)
  /\ SpeechCaught(AUDIO_QUALITY_INSUFFICIENT)
  /\ UNCHANGED <<audioSize, outage, speechError, spokenText, recognizeCalls>>
  /\ UNCHANGED nonSpeechVars

\* an iteration whose client.recognize call throws
RecognizeFails ==
  /\ InSpeechLoop
  /\ ValidateAudioQuality(audioSize)
  /\ recognizeCalls < outage
  /\ recognizeCalls' = recognizeCalls + 1
  /\ SpeechCaught(speechError)
  /\ UNCHANGED <<audioSize, outage, speechError, spokenText>>
  /\ UNCHANGED nonSpeechVars

\* an iteration whose client.recognize call answers
RecognizeAnswers ==
  /\ InSpeechLoop
  /\ ValidateAudioQuality(audioSize)
  /\ recognizeCalls >= outage
  /\ recognizeCalls' = recognizeCalls + 1
  /\ LET done == TranscribeAudio(spokenText)
     IN IF done.t = "return"
          THEN /\ speechOutcome' = done
               /\ UNCHANGED <<speechAttempt, speechDelays>>
          ELSE SpeechCaught(done.message)
  /\ UNCHANGED <<audioSize, outage, speechError, spokenText>>
  /\ UNCHANGED nonSpeechVars

SpeechNext == AudioRejected \/ RecognizeFails \/ RecognizeAnswers

SpeechSpec == SpeechInit /\ [][SpeechNext]_vars

\* the call is over: it returned, threw, or left the loop
SpeechDone == speechOutcome # Pending

TransientOutage == ~NotRetried(speechError)

\* C21: with maxRetries = 3 and valid audio, a backend that fails
\* transiently n consecutive times (1 <= n <= 3) and then answers with
\* speech makes transcribeAudioWithRetry return the transcription
C21_RetryEventuallySucceeds ==
  ( /\ SpeechDone
    /\ ValidateAudioQuality(audioSize)
    /\ outage \in 1..TranscribeMaxRetries
    /\ TransientOutage
    /\ Len(Trim(spokenText)) > 0 )
  => speechOutcome = Return(Chars(Trim(spokenText)))

\* the same for the outages that leave one attempt
C21_RetryWithinAttempts ==
  ( /\ SpeechDone
    /\ ValidateAudioQuality(audioSize)
    /\ outage \in 1..(TranscribeMaxRetries - 1)
    /\ TransientOutage
    /\ Len(Trim(spokenText)) > 0 )
  => /\ speechOutcome = Return(Chars(Trim(spokenText)))
     /\ recognizeCalls = outage + 1

C21_ThreeFailures ==
  /\ SpeechDone
  /\ ValidateAudioQuality(audioSize)
  /\ outage = 3
  /\ TransientOutage
  /\ Len(Trim(spokenText)) > 0
  /\ speechOutcome = TranscriptionFailed(TranscribeMaxRetries, speechError)

\* ------------------------------------------------------------------------
\* Properties of the extraction of the payload from the model's text
\* ------------------------------------------------------------------------

\* the positions of c in str that lie outside string literals
Outside(str, c) ==
  LET quotes == Occurrences(str, <<"\"">>, 1)
  IN { k \in Occurrences(str, <<c>>, 1) : Cardinality({ q \in quotes : q < k }) % 2 = 0 }

\* the {...} of a text that opens at position first: up to the "}" at which
\* as many braces have closed as have opened
ObjectFrom(str, first) ==
  LET opens == Outside(str, "{")
      closes == Outside(str, "}")
      ends == { j \in closes : /\ j > first
                               /\ Cardinality({ k \in opens : first <= k /\ k < j })
                                    = Cardinality({ k \in closes : first < k /\ k <= j }) }
  IN IF ends = {} THEN NoMatch
     ELSE [matched |-> TRUE, group |-> SubSeq(str, first, MinOf(ends))]

\* the first top-level {...} of a text
FirstTopLevelObject(str) ==
  IF Outside(str, "{") = {} THEN NoMatch ELSE ObjectFrom(str, MinOf(Outside(str, "{")))

FencedBlock(str) ==
  IF FenceMatch(str, FENCE_JSON).matched THEN FenceMatch(str, FENCE_JSON)
  ELSE FenceMatch(str, FENCE)

\* the payload the extraction is to give: the contents of the fenced block,
\* else the first top-level object, parsed; a failure if that is no object
StructuredPayload(str) ==
  LET source == IF FencedBlock(str).matched THEN FencedBlock(str).group
                ELSE IF FirstTopLevelObject(str).matched THEN FirstTopLevelObject(str).group
                ELSE <<>>
      parsed == JsonParse(source)
  IN IF parsed.t = "return" /\ parsed.v.t = "object" THEN parsed ELSE JsonSyntaxError

TextAnswered == pc = "done" /\ response.kind = "text" /\ Len(response.data.v) > 0

\* C22: the call answers from the payload of the fenced block if the model's
\* text has one, else from the first top-level object of the text, also when
\* braces or a second object follow it, and signals a parse failure
\* (PARSING_FAILED) when the text holds no parseable object
C22_JsonExtraction ==
  TextAnswered =>
    LET payload == StructuredPayload(Trim(response.data.v))
    IN IF payload.t = "throw"
         THEN ErrorCode = "PARSING_FAILED"
         ELSE result = Return(ValidateParsedData(text, PayloadOf(payload.v)))

\* the part of it that holds: texts with a fenced block, or with one pair of
\* braces at most that are not a bare array
C22_SingleObject ==
  ( /\ TextAnswered
    /\ \/ FencedBlock(Trim(response.data.v)).matched
       \/ /\ Cardinality(Occurrences(response.data.v, <<"{">>, 1)) <= 1
          /\ Cardinality(Occurrences(response.data.v, <<"}">>, 1)) <= 1
          /\ Occurrences(response.data.v, <<"[">>, 1) = {} )
  => LET payload == StructuredPayload(Trim(response.data.v))
     IN IF payload.t = "throw"
          THEN ErrorCode = "PARSING_FAILED"
          ELSE result = Return(ValidateParsedData(text, PayloadOf(payload.v)))

C22_SecondObject ==
  /\ TextAnswered
  /\ response.data.v = VALID_JSON \o SECOND_JSON
  /\ ErrorCode = "PARSING_FAILED"

\* some {...} of the text parses as a JSON object
HoldsParseableObject(str) ==
  \E first \in Outside(str, "{") :
    /\ ObjectFrom(str, first).matched
    /\ JsonParse(ObjectFrom(str, first).group).t = "return"

ParsingFailedWith(details) ==
  /\ ErrorCode = "PARSING_FAILED"
  /\ result.v.error.details \in details

ExtractorThrew == pc = "done" /\ genOutcome.t = "throw"

NoTextInResponse ==
  /\ pc = "done"
  /\ \/ response.kind = "notext"
     \/ response.kind = "text" /\ Len(response.data.v) = 0

NoObjectInText ==
  /\ pc = "done"
  /\ \/ response.kind \in {"nonjson", "nonobject"}
     \/ TextAnswered /\ ~HoldsParseableObject(response.data.v)

BlankInput == pc = "done" /\ TextIsInvalid(text)

UnusableText ==
  {"Failed to parse AI response as JSON", "Invalid parsed data structure"}

\* C23: when every extractor attempt throws, when the response carries no
\* text, when its text holds no parseable JSON object, and when the input is
\* empty or blank (the extractor is then not invoked), the call returns
\* PARSING_FAILED with the message of the failure as details, never
\* MISSING_PARAMETERS or AMBIGUOUS_COMMAND
C23_ExtractorFailure ==
  /\ ExtractorThrew =>
       /\ ParsingFailedWith({genOutcome.message})
       /\ genOutcome.message[4] = failures[Len(failures)]
  /\ NoTextInResponse => ParsingFailedWith({"Failed to get response from AI"})
  /\ NoObjectInText => ParsingFailedWith(UnusableText)
  /\ BlankInput => ParsingFailedWith({"Command text is required"}) /\ invocations = 0

\* the same without the texts that are a JSON array
C23_ExceptArrays ==
  /\ ExtractorThrew =>
       /\ ParsingFailedWith({genOutcome.message})
       /\ genOutcome.message[4] = failures[Len(failures)]
  /\ NoTextInResponse => ParsingFailedWith({"Failed to get response from AI"})
  /\ (NoObjectInText /\ (TextAnswered => ExtractJson(response.data.v).t = "throw"
                                          \/ ExtractJson(response.data.v).v.t # "array"))
       => ParsingFailedWith(UnusableText)
  /\ BlankInput => ParsingFailedWith({"Command text is required"}) /\ invocations = 0

C23_ArrayText ==
  /\ TextAnswered
  /\ response.data.v = <<"[", "]">>
  /\ ErrorCode = "MISSING_PARAMETERS"

\* a payload that is valid but for its recipient, which is a string
OtherwiseValid(p) ==
  /\ p.action = Chars(TRANSFER)
  /\ PositiveNumber(p.amount)
  /\ AtLeast50(p.confidence)
  /\ IsString(p.recipient)

\* C24: for every recipient string r of an otherwise valid payload,
\* parseVoiceCommand accepts r exactly when validateAndResolveRecipient(r)
\* is valid, and the ParsedCommand's recipient is the address the validator
\* returns, also for recipients with white space around them
C24_ParserValidatorAgree ==
  (Answered /\ OtherwiseValid(response.data)) =>
    LET validation == ValidateAndResolveRecipient(response.data.recipient)
    IN /\ ErrorFree <=> validation.valid
       /\ ErrorFree => result.v.recipient = validation.address

\* the agreement on the recipients without white space at their ends
C24_AgreeOnTrimmed ==
  (Answered /\ OtherwiseValid(response.data)
     /\ Trim(response.data.recipient.v) = response.data.recipient.v) =>
    LET validation == ValidateAndResolveRecipient(response.data.recipient)
    IN /\ ErrorFree <=> validation.valid
       /\ ErrorFree => result.v.recipient = validation.address

C24_PaddedAddress ==
  /\ Answered
  /\ OtherwiseValid(response.data)
  /\ response.data.recipient = Chars(ADDR_PADDED)
  /\ ValidateAndResolveRecipient(response.data.recipient).valid
  /\ ErrorCode = "MISSING_PARAMETERS"

\* ------------------------------------------------------------------------
\* getTransactionErrorMessage applied to the errors of the wallet and the chain
\* ------------------------------------------------------------------------

ErrorNames == {"UserRejectedRequestError", "TransactionExecutionError", ""}

RejectionPhrases == {"User rejected", "user rejected", "User denied"}

GasPhrases ==
  {"insufficient funds for gas", "insufficient funds for intrinsic transaction cost"}

ErrorPhrases == RejectionPhrases \cup GasPhrases \cup {"execution reverted", "network timeout"}

RevertReasons == {"", "ERC20: transfer amount exceeds balance"}

\* a revert reason comes after the words "execution reverted: " only
TxErrors ==
  { TxError(n, ph, r) : n \in ErrorNames, ph \in SUBSET ErrorPhrases, r \in RevertReasons }
  \ { e \in { TxError(n, ph, r) : n \in ErrorNames, ph \in SUBSET ErrorPhrases,
                                  r \in RevertReasons } :
        e.reason # "" /\ "execution reverted" \notin e.phrases }

ClassifierInit ==
  /\ text = SESSION_TEXT
  /\ ParserStart
  /\ SessionStart
  /\ AmountStart
  /\ ValidatorStart
  /\ ApiStart
  /\ SpeechStart
  /\ txErrorIn \in TxErrors \cup {Null}
  /\ txMessageOut = Pending

Classify ==
  /\ txMessageOut = Pending
  /\ txMessageOut' = Return(GetTransactionErrorMessage(txErrorIn))
  /\ UNCHANGED txErrorIn
  /\ UNCHANGED nonClassifierVars

ClassifierNext == Classify

ClassifierSpec == ClassifierInit /\ [][ClassifierNext]_vars

\* the four classes in their order of precedence
IsUserRejected(e) == e.phrases \cap RejectionPhrases # {} \/ e.name = "UserRejectedRequestError"
IsInsufficientGas(e) == e.phrases \cap GasPhrases # {}
IsReverted(e) == "execution reverted" \in e.phrases

ClassOf(e) ==
  IF IsUserRejected(e) THEN "user-rejected-signature"
  ELSE IF IsInsufficientGas(e) THEN "insufficient-gas"
  ELSE IF IsReverted(e) THEN "contract-reverted"
  ELSE "generic-network-rpc"

\* the class a user-facing message speaks of, by its fixed words
ClassOfMessage(m) ==
  CASE m[1] = "Transaction cancelled: You rejected the transaction in your wallet"
         -> "user-rejected-signature"
    [] m[1] = "Insufficient gas: You need more ETH for gas fees" -> "insufficient-gas"
    [] m[1] = "Transaction reverted: " -> "contract-reverted"
    [] m[1] = "Transaction failed: " -> "generic-network-rpc"
    [] OTHER -> "none"

Classified == txMessageOut # Pending /\ txErrorIn # Null

\* C25: every transfer error gets the message of exactly one class, the
\* first that applies of user-rejected-signature, insufficient-gas,
\* contract-reverted and generic network/RPC error; the messages of the four
\* classes differ, and that of a revert carries the revert reason if the
\* error has one
C25_ErrorClassification ==
  Classified =>
    /\ ClassOfMessage(txMessageOut.v) = ClassOf(txErrorIn)
    /\ ClassOf(txErrorIn) = "contract-reverted" =>
         txMessageOut.v[2] = IF txErrorIn.reason # "" THEN txErrorIn.reason ELSE "unknown reason"

\* a revert with a reason whose message also speaks of gas
C25_Witness ==
  /\ Classified
  /\ IsInsufficientGas(txErrorIn)
  /\ IsReverted(txErrorIn)
  /\ txErrorIn.reason # ""
  /\ ~IsUserRejected(txErrorIn)
  /\ ClassOfMessage(txMessageOut.v) = "insufficient-gas"

C25_WitnessReverted ==
  /\ Classified
  /\ txMessageOut.v = <<"Transaction reverted: ", "ERC20: transfer amount exceeds balance">>

\* ------------------------------------------------------------------------
\* The session after a failed, a confirmed and a superseded transfer
\* ------------------------------------------------------------------------

\* the step in which the signature request of the shown command fails
SignatureFails ==
  /\ writeStatus = "pending"
  /\ writeStatus' = "error"
  /\ ~crashed
  /\ Phase = "executing"

\* the state such a step leaves: the request of the shown command has failed
AfterSignatureFailure ==
  /\ ~crashed
  /\ writeStatus = "error"
  /\ showConfirmation
  /\ OwnTransaction

\* C26 (failed execution keeps the command): every step in which the wallet
\* rejects the signature or the submission fails during the executing phase
\* leads to the confirming phase with an error message shown and the same
\* parsedCommand still displayed, and after such a failure the Confirm button
\* is enabled for that command whenever the known balance covers its amount.
C26_FailedExecutionKeepsCommand ==
  /\ [][SignatureFails =>
          /\ Phase' = "confirming"
          /\ error' # <<>>
          /\ parsedCommand' = parsedCommand
          /\ ConfirmationShown']_vars
  /\ []((AfterSignatureFailure /\ balanceValidation.isValid) => ConfirmAvailable)

C26_Witness ==
  /\ ~crashed
  /\ writeStatus = "error"
  /\ OwnTransaction
  /\ Phase = "confirming"
  /\ error = GetTransactionErrorMessage(transactionError)
  /\ ConfirmAvailable

\* C26 as the claim states it: every such step leaves the Confirm button
\* enabled for the same command, whatever the balance known by then
C26_ConfirmAlwaysAvailable ==
  [][SignatureFails =>
       /\ Phase' = "confirming"
       /\ error' # <<>>
       /\ parsedCommand' = parsedCommand
       /\ ConfirmAvailable']_vars

\* The balance read has returned a value
BalanceKnown == balanceData # Undefined

InsufficientMessage(cmd) ==
  [isValid |-> FALSE,
   message |-> <<"Insufficient balance (", cmd.amount, " MNEE required)">>]

\* C27 (insufficient-balance message), as the claim states it: in every
\* reachable state in which the balance is known, zero included, and the
\* command's amount in base units exceeds it, validateBalance reports the
\* insufficient-balance message that names the required amount.
C27_InsufficientBalanceMessage ==
  (~crashed /\ BalanceKnown /\ InsufficientBalance) =>
    balanceValidation = InsufficientMessage(parsedCommand)

\* the same for the known balances other than zero
C27_MessageForNonZeroBalance ==
  (~crashed /\ BalanceKnown /\ BigTruthy(balanceData) /\ InsufficientBalance) =>
    balanceValidation = InsufficientMessage(parsedCommand)

\* a command of 50 tokens is shown, the known balance is zero, and
\* validateBalance answers that the balance is not loaded
C27_ZeroBalance ==
  /\ ConfirmationShown
  /\ parsedCommand.amount = Num(FALSE, <<"5">>, 2)
  /\ balanceData = Big(<<"0">>)
  /\ InsufficientBalance
  /\ balanceValidation = NotLoaded

\* C28 (disconnection halts in-flight work), as the claim states it: after
\* the wallet disconnected during a recording, a transcription or a parse,
\* no step of the work then in flight, a late response included, sets
\* parsedCommand or opens the confirmation.
C28_DisconnectionHaltsWork ==
  [][severed =>
       /\ (parsedCommand' # parsedCommand => parsedCommand' = Null)
       /\ (showConfirmation' => showConfirmation)]_vars

\* the transfer of the shown command is confirmed on chain
Confirmed == ~crashed /\ Phase = "confirmed"

\* C29 (at most one confirmed transfer per command), as the claim states it:
\* once the transfer of the shown command is confirmed, the Confirm button
\* is not available, no step calls transfer, and the only step that changes
\* the session's command is the delayed reset to idle.
C29_OneConfirmedTransfer ==
  /\ [](Confirmed => ~ConfirmAvailable)
  /\ [][Confirmed => nTransfers' = nTransfers]_vars
  /\ [][(Confirmed /\ Phase' # "confirmed") => (timers' < timers /\ Phase' = "idle")]_vars

\* the weaker parts, one by one
C29_ConfirmUnavailable == Confirmed => ~ConfirmAvailable

C29_NoSecondTransfer == [][Confirmed => nTransfers' = nTransfers]_vars

\* two transfers were made for command 1, the second after the first was
\* confirmed
C29_SecondTransfer ==
  /\ nTransfers = 2
  /\ nCommands = 1
  /\ lastTransfer.id = 1
  /\ writeStatus = "pending"
  /\ timers = 1

\* the step in which a delayed reset clears the shown command
ResetClears == timers' < timers /\ parsedCommand # Null /\ parsedCommand' = Null

\* C30 (delayed reset is scoped to its own transaction), as the claim states
\* it: every delayed reset that clears a parsedCommand clears the command of
\* the confirmed transfer that scheduled it, never the command of a later
\* recording.
C30_ResetScopedToTransaction ==
  [][ResetClears => parsedCommand.id = resetOwner]_vars

\* command 2, not yet confirmed by the user, is shown while the reset
\* scheduled by the confirmed transfer of command 1 is pending
C30_LaterCommandAtRisk ==
  /\ ConfirmationShown
  /\ parsedCommand.id = 2
  /\ resetOwner = 1
  /\ timers = 1
  /\ nTransfers = 1

====
